---- MODULE Spec2Model ----
(***************************************************************************)
(* Spoiler Shield Mobile: the platform registry (PlatformManager), the     *)
(* fan-out fetch and unified feed, and the per-adapter rate limiters.      *)
(*                                                                         *)
(* JavaScript runs one callback at a time; an async function is cut at its *)
(* awaits, and each piece between two awaits is one atomic action.         *)
(* AsyncStorage executes its operations in the order they were issued, so  *)
(* a getItem/setItem takes effect where the code issues it and its result  *)
(* is consumed by the continuation after the await.                        *)
(***************************************************************************)
EXTENDS Integers, Sequences, FiniteSets, TLC

\* ------------------------------------------------------------------ bounds
MaxOps == 3          \* registry calls (setPlatformEnabled/configurePlatform/restart) per behaviour
MaxItems == 1        \* items in one source's payload
MaxStamp == 2        \* creation times 1..MaxStamp
MaxGrants == 3       \* rate-limit acquires issued per behaviour
MaxSources == 3      \* platforms enabled in the store a fetch session starts from
TickMs == 500        \* the clock advances in steps of this many ms
ClockStart == 1000   \* Date.now() at start: no interval is still running then
Horizon == 2000      \* the clock runs this many ms past its start
MaxCalls == 2        \* fetch, search and connection-test calls one caller makes in a row
MaxProbed == 2       \* platforms enabled in the store such a caller's session starts from
MaxTerms == 1        \* terms in the watchlist an analysis session starts from
MaxTermPieces == 2   \* pieces a watchlist term of an analysis session is made of
MaxTextPieces == 2   \* pieces an analysed text is made of
MaxShortPieces == 1  \* pieces of the terms users add and of the terms overlapping scans see
MaxScanPieces == 1   \* pieces of the texts of overlapping scans
MaxWatchlist == 2    \* addToWatchlist is called while the list is shorter than this
MaxTierTerms == 1    \* terms in the watchlist a tier check starts from
MaxRequests == 2     \* adapter requests that get as far as the rate limiter, per behaviour
MaxPosts == 2        \* posts in the protected Reddit feed

\* --------------------------------------------------------------- constants
NoItem == "<null>"   \* AsyncStorage.getItem of an absent key
Platforms == {"reddit", "twitter", "youtube", "news", "facebook", "instagram"}
PlatformOrder == <<"reddit", "twitter", "youtube", "news", "facebook", "instagram">>
Tokens == {"", "tok"}

\* the AsyncStorage key checkPlatformConfigurations reads for a platform
CredentialKey(p) ==
  CASE p = "reddit" -> "reddit_client_id"
    [] p = "twitter" -> "twitter_bearer_token"
    [] p = "youtube" -> "youtube_api_key"
    [] p = "facebook" -> "facebook_access_token"
    [] p = "instagram" -> "instagram_access_token"
    [] OTHER -> "none"

CredentialKeys == {CredentialKey(p) : p \in Platforms \ {"news"}}

\* JavaScript !!value for a stored string: null and "" are falsy
Truthy(v) == v # NoItem /\ v # ""

DefaultPlatforms ==
  [p \in Platforms |-> [enabled |-> (p = "news"), configured |-> (p = "news")]]

VARIABLES
  platforms,        \* this.platforms[p].{enabled, configured}
  platform_states,  \* AsyncStorage item 'platform_states': [present, states]
  store,            \* AsyncStorage credential items, by key
  loadPc,           \* position of the constructor-started loadPlatformStates
  loadStates,       \* result of the getItem('platform_states') the loader awaits
  loadBuf,          \* result of the credential getItem the loader awaits
  cfg,              \* the configurePlatform call in flight
  callResult,       \* outcome of the last registry call that settled
  nOps              \* registry calls made so far

regVars ==
  <<platforms, platform_states, store, loadPc, loadStates, loadBuf, cfg, callResult, nOps>>

\* the item savePlatformStates writes
StatesSnapshot(pl) ==
  [present |-> TRUE,
   states |-> [p \in Platforms |-> [enabled |-> pl[p].enabled, configured |-> pl[p].configured]]]

\* getItem('platform_states') when nothing was saved yet
NoStates == [present |-> FALSE, states |-> DefaultPlatforms]

\* { ...this.platforms[p], ...parsedStates[p] } for every stored platform
MergeStates(pl, saved) ==
  IF ~saved.present THEN pl
  ELSE [p \in Platforms |->
          [enabled |-> saved.states[p].enabled, configured |-> saved.states[p].configured]]

getEnabledPlatforms(pl) == {p \in Platforms : pl[p].enabled /\ pl[p].configured}

\* the platform whose credential the loader checks after p
NextChecked(p) ==
  CASE p = "reddit" -> "twitter"
    [] p = "twitter" -> "youtube"
    [] p = "youtube" -> "facebook"
    [] p = "facebook" -> "instagram"
    [] OTHER -> "none"

IdleCfg == [pc |-> "idle", platform |-> "none"]
NoCall == [op |-> "none", platform |-> "none", status |-> "none"]

\* -------------------------------------------------------- registry actions
\* loadPlatformStates after `await getItem('platform_states')`: merge, then
\* checkPlatformConfigurations issues its first getItem
LoadMerge ==
  /\ loadPc = "states"
  /\ platforms' = MergeStates(platforms, loadStates)
  /\ loadBuf' = store[CredentialKey("reddit")]
  /\ loadPc' = "reddit"
  /\ UNCHANGED <<platform_states, store, loadStates, cfg, callResult, nOps>>

\* checkPlatformConfigurations after the await of one credential item; after
\* the last one it marks news configured and saves
CheckConfigured(p) ==
  /\ loadPc = p
  /\ p \in Platforms \ {"news"}
  /\ LET pl1 == [platforms EXCEPT ![p].configured = Truthy(loadBuf)]
         pl2 == [pl1 EXCEPT !["news"].configured = TRUE]
     IN IF NextChecked(p) # "none"
        THEN /\ platforms' = pl1
             /\ loadBuf' = store[CredentialKey(NextChecked(p))]
             /\ loadPc' = NextChecked(p)
             /\ UNCHANGED platform_states
        ELSE /\ platforms' = pl2
             /\ platform_states' = StatesSnapshot(pl2)
             /\ loadBuf' = NoItem
             /\ loadPc' = "save"
  /\ UNCHANGED <<store, loadStates, cfg, callResult, nOps>>

\* the awaits of savePlatformStates, checkPlatformConfigurations and
\* loadPlatformStates resolve
LoadDone ==
  /\ loadPc = "save"
  /\ loadPc' = "done"
  /\ UNCHANGED <<platforms, platform_states, store, loadStates, loadBuf, cfg, callResult, nOps>>

setPlatformEnabled(p, enabled) ==
  /\ nOps < MaxOps
  /\ nOps' = nOps + 1
  /\ platforms' = [platforms EXCEPT ![p].enabled = enabled]
  /\ platform_states' = StatesSnapshot(platforms')
  /\ callResult' = [op |-> "setPlatformEnabled", platform |-> p, status |-> "ok"]
  /\ UNCHANGED <<store, loadPc, loadStates, loadBuf, cfg>>

\* configurePlatform up to its first await
configurePlatform(p, credentials) ==
  /\ nOps < MaxOps
  /\ cfg.pc = "idle"
  /\ nOps' = nOps + 1
  /\ CASE p = "reddit" ->
            \* RedditAPI has no setCredentials: the call rejects with a TypeError
            /\ callResult' = [op |-> "configurePlatform", platform |-> p, status |-> "TypeError"]
            /\ UNCHANGED <<platforms, platform_states, store, cfg>>
       [] p = "news" ->
            /\ platforms' = [platforms EXCEPT ![p].configured = TRUE]
            /\ platform_states' = StatesSnapshot(platforms')
            /\ cfg' = [pc |-> "save", platform |-> p]
            /\ UNCHANGED <<store, callResult>>
       [] OTHER ->
            /\ store' = [store EXCEPT ![CredentialKey(p)] = credentials]
            /\ cfg' = [pc |-> "credentials", platform |-> p]
            /\ UNCHANGED <<platforms, platform_states, callResult>>
  /\ UNCHANGED <<loadPc, loadStates, loadBuf>>

\* a configurePlatform that also enables the source it configured
ConfigureMarkEnabling ==
  /\ cfg.pc = "credentials"
  /\ platforms' = [platforms EXCEPT ![cfg.platform].configured = TRUE,
                                    ![cfg.platform].enabled = TRUE]
  /\ platform_states' = StatesSnapshot(platforms')
  /\ cfg' = [cfg EXCEPT !.pc = "save"]
  /\ UNCHANGED <<store, loadPc, loadStates, loadBuf, callResult, nOps>>

\* configurePlatform after `await <adapter>.setCredentials(...)`
ConfigureMark ==
  /\ cfg.pc = "credentials"
  /\ platforms' = [platforms EXCEPT ![cfg.platform].configured = TRUE]
  /\ platform_states' = StatesSnapshot(platforms')
  /\ cfg' = [cfg EXCEPT !.pc = "save"]
  /\ UNCHANGED <<store, loadPc, loadStates, loadBuf, callResult, nOps>>

\* configurePlatform after `await this.savePlatformStates()`
ConfigureDone ==
  /\ cfg.pc = "save"
  /\ cfg' = IdleCfg
  /\ callResult' = [op |-> "configurePlatform", platform |-> cfg.platform, status |-> "ok"]
  /\ UNCHANGED <<platforms, platform_states, store, loadPc, loadStates, loadBuf, nOps>>

\* the process is restarted: the module singleton is constructed again and
\* the constructor starts loadPlatformStates; AsyncStorage keeps its items.
\* (Restarts are taken between calls only, which keeps the state space small.)
Restart ==
  /\ nOps < MaxOps
  /\ loadPc = "done"
  /\ cfg.pc = "idle"
  /\ nOps' = nOps + 1
  /\ platforms' = DefaultPlatforms
  /\ loadPc' = "states"
  /\ loadStates' = platform_states
  /\ loadBuf' = NoItem
  /\ callResult' = NoCall
  /\ UNCHANGED <<platform_states, store, cfg>>

\* ------------------------------------------------- fetch and unified feed
VARIABLES
  fetchPc,          \* getUnifiedFeed: "idle", "waiting", "returned" or "threw"
  enabledPlatforms, \* the getEnabledPlatforms() snapshot of the pending call
  task,             \* per platform: "none", "pending", "silent" (never answers), "done"
  netFailed,        \* per platform: its request failed (network, auth or payload)
  results,          \* fetchAllContent's results, by platform
  resultKeys,       \* Object.keys(results): the order the entries were inserted in
  feed,             \* the unifiedFeed returned
  deadlineExpired   \* the caller's deadline for the pending call has passed

fetchVars ==
  <<fetchPc, enabledPlatforms, task, netFailed, results, resultKeys, feed,
    deadlineExpired>>

Stamps == 1..MaxStamp

\* what the network hands an adapter: a failure, or a payload of raw items,
\* each with its creation time
Payloads == UNION {[1..n -> Stamps] : n \in 0..MaxItems}
Responses == {[ok |-> FALSE, items |-> <<>>]} \cup {[ok |-> TRUE, items |-> its] : its \in Payloads}

\* the date field an adapter's formatter gives an item: `created`
\* (reddit, twitter, youtube, facebook), `published` (news), or neither
\* (instagram sets `timestamp` only)
FormatItem(p, i, stamp) ==
  [id |-> i,
   created |-> IF p \in {"reddit", "twitter", "youtube", "facebook"} THEN stamp ELSE 0,
   published |-> IF p = "news" THEN stamp ELSE 0,
   timestamp |-> IF p = "instagram" THEN stamp ELSE 0]

FormatItems(p, items) == [i \in 1..Len(items) |-> FormatItem(p, i, items[i])]

\* RedditAPI.getSamplePosts: the fallback posts of a failed request
getSamplePosts == FormatItems("reddit", <<MaxStamp>>)

\* does the call fetchAllContent makes for p issue a request at all
\* (fetchFacebookContent returns [] when options hold no pageId or query)
IssuesRequest(p) == p # "facebook"

\* the value the adapter call of fetchAllContent's switch resolves to, or
\* that it rejects. Every adapter catches its request's error and returns [];
\* RedditAPI returns the object {posts, after, before}, sample posts on error.
AdapterFetch(p, resp) ==
  CASE p = "reddit" ->
         [threw |-> FALSE, isArray |-> FALSE,
          items |-> IF resp.ok THEN FormatItems(p, resp.items) ELSE getSamplePosts]
    [] p = "facebook" ->
         [threw |-> FALSE, isArray |-> TRUE, items |-> <<>>]
    [] OTHER ->
         [threw |-> FALSE, isArray |-> TRUE,
          items |-> IF resp.ok THEN FormatItems(p, resp.items) ELSE <<>>]

NoEntry == [present |-> FALSE, success |-> FALSE, isArray |-> TRUE, content |-> <<>>, count |-> 0]

\* the entry one task of fetchAllContent stores; content.length of the
\* reddit object is undefined, written -1
ResultEntry(r) ==
  IF r.threw
  THEN [present |-> TRUE, success |-> FALSE, isArray |-> TRUE, content |-> <<>>, count |-> 0]
  ELSE [present |-> TRUE, success |-> TRUE, isArray |-> r.isArray, content |-> r.items,
        count |-> IF r.isArray THEN Len(r.items) ELSE -1]

\* a.created || a.published || new Date(0), as a time
DateOf(item) ==
  IF item.created # 0 THEN item.created
  ELSE IF item.published # 0 THEN item.published ELSE 0

\* the items getUnifiedFeed pushes for one platform: the adapter's item,
\* spread, with platform (platformInfo goes with it) and unified
Tagged(p, entry) ==
  [i \in 1..Len(entry.content) |->
     [platform |-> p, unified |-> TRUE, id |-> entry.content[i].id,
      created |-> entry.content[i].created, published |-> entry.content[i].published,
      timestamp |-> entry.content[i].timestamp]]

RECURSIVE Combine(_, _)
Combine(keys, res) ==
  IF keys = <<>> THEN <<>>
  ELSE LET p == Head(keys)
       IN (IF res[p].success THEN Tagged(p, res[p]) ELSE <<>>) \o Combine(Tail(keys), res)

\* insert x into a list sorted newest first, after the items that are not older
RECURSIVE InsertByDate(_, _)
InsertByDate(sorted, x) ==
  IF sorted = <<>> THEN <<x>>
  ELSE IF DateOf(Head(sorted)) >= DateOf(x)
       THEN <<Head(sorted)>> \o InsertByDate(Tail(sorted), x)
       ELSE <<x>> \o sorted

\* unifiedFeed.sort((a, b) => dateB - dateA): a stable sort, newest first
RECURSIVE SortByDate(_)
SortByDate(items) ==
  IF items = <<>> THEN <<>>
  ELSE InsertByDate(SortByDate(SubSeq(items, 1, Len(items) - 1)), items[Len(items)])

\* content.forEach is not a function when a successful entry is not an array
ForEachThrows(keys, res) ==
  \E i \in 1..Len(keys) : res[keys[i]].success /\ ~res[keys[i]].isArray

\* getUnifiedFeed calls fetchAllContent, which snapshots the enabled platforms
\* and starts one task per platform
StartFetch ==
  /\ fetchPc = "idle"
  /\ fetchPc' = "waiting"
  /\ enabledPlatforms' = getEnabledPlatforms(platforms)
  /\ task' = [p \in Platforms |-> IF p \in enabledPlatforms' THEN "pending" ELSE "none"]
  /\ UNCHANGED <<netFailed, results, resultKeys, feed, deadlineExpired>>
  /\ UNCHANGED regVars

\* a task that disables the platform whose request failed
TaskCompleteDisabling(p, resp) ==
  /\ fetchPc = "waiting"
  /\ task[p] = "pending"
  /\ IssuesRequest(p) \/ resp = [ok |-> TRUE, items |-> <<>>]
  /\ task' = [task EXCEPT ![p] = "done"]
  /\ netFailed' = [netFailed EXCEPT ![p] = ~resp.ok]
  /\ results' = [results EXCEPT ![p] = ResultEntry(AdapterFetch(p, resp))]
  /\ resultKeys' = Append(resultKeys, p)
  /\ platforms' = [platforms EXCEPT ![p].enabled = resp.ok]
  /\ UNCHANGED <<fetchPc, enabledPlatforms, feed, deadlineExpired>>
  /\ UNCHANGED <<platform_states, store, loadPc, loadStates, loadBuf, cfg, callResult, nOps>>

\* one task's adapter call settles and its try/catch stores the entry
TaskComplete(p, resp) ==
  /\ fetchPc = "waiting"
  /\ task[p] = "pending"
  /\ IssuesRequest(p) \/ resp = [ok |-> TRUE, items |-> <<>>]
  /\ task' = [task EXCEPT ![p] = "done"]
  /\ netFailed' = [netFailed EXCEPT ![p] = ~resp.ok]
  /\ results' = [results EXCEPT ![p] = ResultEntry(AdapterFetch(p, resp))]
  /\ resultKeys' = Append(resultKeys, p)
  /\ UNCHANGED <<fetchPc, enabledPlatforms, feed, deadlineExpired>>
  /\ UNCHANGED regVars

\* the source of a pending task never answers: its request stays open
TaskSilent(p) ==
  /\ fetchPc = "waiting"
  /\ task[p] = "pending"
  /\ IssuesRequest(p)
  /\ task' = [task EXCEPT ![p] = "silent"]
  /\ UNCHANGED <<fetchPc, enabledPlatforms, netFailed, results, resultKeys, feed,
                 deadlineExpired>>
  /\ UNCHANGED regVars

\* Promise.all resolves once every task has settled; getUnifiedFeed then
\* combines, sorts and returns, or throws out of its forEach
FetchReturn ==
  /\ fetchPc = "waiting"
  /\ \A p \in enabledPlatforms : task[p] = "done"
  /\ IF ForEachThrows(resultKeys, results)
     THEN fetchPc' = "threw" /\ feed' = <<>>
     ELSE fetchPc' = "returned" /\ feed' = SortByDate(Combine(resultKeys, results))
  /\ UNCHANGED <<enabledPlatforms, task, netFailed, results, resultKeys, deadlineExpired>>
  /\ UNCHANGED regVars

\* the deadline the caller had for the pending call passes; fetchAllContent
\* takes no deadline or cancellation token, so nothing in it reacts
DeadlineExpires ==
  /\ fetchPc = "waiting"
  /\ ~deadlineExpired
  /\ deadlineExpired' = TRUE
  /\ UNCHANGED <<fetchPc, enabledPlatforms, task, netFailed, results, resultKeys, feed>>
  /\ UNCHANGED regVars

\* ------------------------------------------------------------ rate limiters
VARIABLES
  clock,            \* Date.now(), in ms
  lastRequestTime,  \* this.lastRequestTime of each adapter singleton
  requestCount,     \* this.requestCount of each adapter singleton
  caller,           \* each caller's position in enforceRateLimit
  grantLog          \* the acquires granted so far, in order

rateVars == <<clock, lastRequestTime, requestCount, caller, grantLog>>

Callers == {1, 2}
Adapters == {"RedditAPI", "TwitterAPI", "YouTubeAPI", "NewsAPI", "SocialMediaAPI"}

\* the singleton whose limiter a platform's requests go through
AdapterOf(p) ==
  CASE p = "reddit" -> "RedditAPI"
    [] p = "twitter" -> "TwitterAPI"
    [] p = "youtube" -> "YouTubeAPI"
    [] p = "news" -> "NewsAPI"
    [] OTHER -> "SocialMediaAPI"

rateLimitDelay(a) ==
  CASE a = "YouTubeAPI" -> 100
    [] a = "NewsAPI" -> 500
    [] OTHER -> 1000

IdleCaller == [pc |-> "idle", platform |-> "none", wakeAt |-> 0]

Grant(c, p, waited) == [caller |-> c, platform |-> p, time |-> clock, waited |-> waited]

\* a limiter that sleeps for the time already elapsed, not the remainder
SleepForElapsed(a, timeSinceLastRequest) == timeSinceLastRequest

\* how long enforceRateLimit sleeps when it finds timeSinceLastRequest < rateLimitDelay
SleepFor(a, timeSinceLastRequest) == rateLimitDelay(a) - timeSinceLastRequest

\* enforceRateLimit (the head of RedditAPI.makeRequest) up to its await: it
\* returns at once when the interval has elapsed, else it sets a timer
Acquire(c, p) ==
  /\ caller[c].pc = "idle"
  /\ Len(grantLog) + Cardinality({d \in Callers : caller[d].pc = "sleeping"}) < MaxGrants
  /\ LET a == AdapterOf(p)
         timeSinceLastRequest == clock - lastRequestTime[a]
     IN IF timeSinceLastRequest < rateLimitDelay(a)
        THEN /\ caller' = [caller EXCEPT ![c] =
                  [pc |-> "sleeping", platform |-> p,
                   wakeAt |-> clock + SleepFor(a, timeSinceLastRequest)]]
             /\ UNCHANGED <<lastRequestTime, requestCount, grantLog>>
        ELSE /\ lastRequestTime' = [lastRequestTime EXCEPT ![a] = clock]
             /\ requestCount' = [requestCount EXCEPT ![a] = @ + 1]
             /\ grantLog' = Append(grantLog, Grant(c, p, FALSE))
             /\ UNCHANGED caller
  /\ UNCHANGED clock

\* the timer fires (not before its delay) and enforceRateLimit returns
Wake(c) ==
  /\ caller[c].pc = "sleeping"
  /\ clock >= caller[c].wakeAt
  /\ LET a == AdapterOf(caller[c].platform)
     IN /\ lastRequestTime' = [lastRequestTime EXCEPT ![a] = clock]
        /\ requestCount' = [requestCount EXCEPT ![a] = @ + 1]
  /\ grantLog' = Append(grantLog, Grant(c, caller[c].platform, TRUE))
  /\ caller' = [caller EXCEPT ![c] = IdleCaller]
  /\ UNCHANGED clock

Tick ==
  /\ clock + TickMs <= ClockStart + Horizon
  /\ clock' = clock + TickMs
  /\ UNCHANGED <<lastRequestTime, requestCount, caller, grantLog>>

InitRate ==
  /\ clock = ClockStart
  /\ lastRequestTime = [a \in Adapters |-> 0]
  /\ requestCount = [a \in Adapters |-> 0]
  /\ caller = [c \in Callers |-> IdleCaller]
  /\ grantLog = <<>>

\* ------------------------------------- search, connection test, later calls
VARIABLES
  callKind,         \* the call the caller has open: "none", "feed", "search" or "test"
  probe,            \* what testPlatformConnection did and returned
  everFailed,       \* platforms that failed in an earlier call of this caller
  nCalls            \* calls the caller has made

probeVars == <<callKind, probe, everFailed, nCalls>>

NoProbe == [platform |-> "none", requestOk |-> FALSE, connected |-> FALSE, threw |-> FALSE]

\* the value <adapter>.testConnection() resolves to, or that the call throws.
\* Twitter, YouTube, Facebook and Instagram return true after their request
\* and false from their catch; NewsAPI.testConnection awaits getTopHeadlines,
\* which catches the request's error itself and returns []; RedditAPI has no
\* testConnection, so the call is a TypeError
AdapterTest(p, requestOk) ==
  CASE p = "reddit" -> [threw |-> TRUE, value |-> FALSE]
    [] p = "news" -> [threw |-> FALSE, value |-> TRUE]
    [] OTHER -> [threw |-> FALSE, value |-> requestOk]

\* does testPlatformConnection(p) get as far as a request
IssuesTest(p) == p # "reddit"

\* testPlatformConnection: the switch inside try, `return false` in catch
testPlatformConnection(p, requestOk) ==
  /\ fetchPc = "idle"
  /\ nCalls < MaxCalls
  /\ IssuesTest(p) \/ ~requestOk
  /\ LET r == AdapterTest(p, requestOk)
     IN probe' = [platform |-> p, requestOk |-> requestOk,
                  connected |-> IF r.threw THEN FALSE ELSE r.value, threw |-> FALSE]
  /\ fetchPc' = "returned"
  /\ callKind' = "test"
  /\ nCalls' = nCalls + 1
  /\ UNCHANGED <<enabledPlatforms, task, netFailed, results, resultKeys, feed,
                 deadlineExpired, everFailed>>
  /\ UNCHANGED regVars

\* does the call searchAllPlatforms makes for p issue a request
\* (RedditAPI.searchPosts does not exist; instagram has no case)
IssuesSearch(p) == p \notin {"reddit", "instagram"}

\* the value the adapter call of searchAllPlatforms' switch resolves to, or
\* that it throws; every search method catches its request's error and
\* returns []
AdapterSearch(p, resp) ==
  CASE p = "reddit" -> [threw |-> TRUE, isArray |-> TRUE, items |-> <<>>]
    [] p = "instagram" -> [threw |-> FALSE, isArray |-> TRUE, items |-> <<>>]
    [] OTHER ->
         [threw |-> FALSE, isArray |-> TRUE,
          items |-> IF resp.ok THEN FormatItems(p, resp.items) ELSE <<>>]

\* searchAllPlatforms snapshots the enabled platforms and starts one task
\* per platform
searchAllPlatforms ==
  /\ fetchPc = "idle"
  /\ nCalls < MaxCalls
  /\ fetchPc' = "waiting"
  /\ callKind' = "search"
  /\ nCalls' = nCalls + 1
  /\ enabledPlatforms' = getEnabledPlatforms(platforms)
  /\ task' = [p \in Platforms |-> IF p \in enabledPlatforms' THEN "pending" ELSE "none"]
  /\ UNCHANGED <<netFailed, results, resultKeys, feed, deadlineExpired, probe, everFailed>>
  /\ UNCHANGED regVars

\* one search task's adapter call settles and its try/catch stores the entry
SearchTaskComplete(p, resp) ==
  /\ fetchPc = "waiting"
  /\ callKind = "search"
  /\ task[p] = "pending"
  /\ IssuesSearch(p) \/ resp = [ok |-> TRUE, items |-> <<>>]
  /\ task' = [task EXCEPT ![p] = "done"]
  /\ netFailed' = [netFailed EXCEPT ![p] = ~resp.ok]
  /\ results' = [results EXCEPT ![p] = ResultEntry(AdapterSearch(p, resp))]
  /\ resultKeys' = Append(resultKeys, p)
  /\ UNCHANGED <<fetchPc, enabledPlatforms, feed, deadlineExpired>>
  /\ UNCHANGED probeVars
  /\ UNCHANGED regVars

\* Promise.all resolves and searchAllPlatforms returns its results
SearchReturn ==
  /\ fetchPc = "waiting"
  /\ callKind = "search"
  /\ \A p \in enabledPlatforms : task[p] = "done"
  /\ fetchPc' = "returned"
  /\ UNCHANGED <<enabledPlatforms, task, netFailed, results, resultKeys, feed, deadlineExpired>>
  /\ UNCHANGED probeVars
  /\ UNCHANGED regVars

\* the caller's getUnifiedFeed call
FeedCall ==
  /\ nCalls < MaxCalls
  /\ StartFetch
  /\ callKind' = "feed"
  /\ nCalls' = nCalls + 1
  /\ UNCHANGED <<probe, everFailed>>

\* the platforms the settled call saw fail
FailedNow ==
  {p \in Platforms : netFailed[p] \/ (results[p].present /\ ~results[p].success)}
    \cup (IF callKind = "test" /\ ~probe.requestOk THEN {probe.platform} ELSE {})

\* the caller has taken the settled call's result and is free for the next
\* call; the call's locals (results, enabledPlatforms, the promises) are gone
NextCall ==
  /\ fetchPc \in {"returned", "threw"}
  /\ fetchPc' = "idle"
  /\ everFailed' = everFailed \cup FailedNow
  /\ callKind' = "none"
  /\ probe' = NoProbe
  /\ enabledPlatforms' = {}
  /\ task' = [p \in Platforms |-> "none"]
  /\ netFailed' = [p \in Platforms |-> FALSE]
  /\ results' = [p \in Platforms |-> NoEntry]
  /\ resultKeys' = <<>>
  /\ feed' = <<>>
  /\ UNCHANGED <<deadlineExpired, nCalls>>
  /\ UNCHANGED regVars

InitProbe ==
  /\ callKind = "none"
  /\ probe = NoProbe
  /\ everFailed = {}
  /\ nCalls = 0

\* ------------------------------------------------------------------ strings
\* A string is the sequence of its characters.
UpperCase == {"G"}
Whitespace == {" "}
Punctuation == {"-"}

\* String.prototype.toLowerCase, per character
Lower(c) == IF c = "G" THEN "g" ELSE c

toLowerCase(s) == [i \in 1..Len(s) |-> Lower(s[i])]

\* .replace(/[^\w\s]/g, ' ')
ReplacePunctuation(s) == [i \in 1..Len(s) |-> IF s[i] \in Punctuation THEN " " ELSE s[i]]

\* .replace(/\s+/g, ' ')
RECURSIVE CollapseWhitespace(_)
CollapseWhitespace(s) ==
  IF Len(s) < 2 THEN s
  ELSE IF s[1] \in Whitespace /\ s[2] \in Whitespace
       THEN CollapseWhitespace(Tail(s))
       ELSE <<s[1]>> \o CollapseWhitespace(Tail(s))

RECURSIVE trimStart(_)
trimStart(s) == IF s # <<>> /\ Head(s) \in Whitespace THEN trimStart(Tail(s)) ELSE s

RECURSIVE trimEnd(_)
trimEnd(s) ==
  IF s # <<>> /\ s[Len(s)] \in Whitespace THEN trimEnd(SubSeq(s, 1, Len(s) - 1)) ELSE s

trim(s) == trimEnd(trimStart(s))

\* String.prototype.includes
includes(s, t) == \E i \in 0..(Len(s) - Len(t)) : SubSeq(s, i + 1, i + Len(t)) = t

\* s.split(' '): the pieces between single spaces, empty pieces included
RECURSIVE split(_)
split(s) ==
  IF \A i \in 1..Len(s) : s[i] # " " THEN <<s>>
  ELSE LET k == CHOOSE i \in 1..Len(s) : s[i] = " " /\ \A j \in 1..(i - 1) : s[j] # " "
       IN <<SubSeq(s, 1, k - 1)>> \o split(SubSeq(s, k + 1, Len(s)))

\* words.filter(word => word.length > 2)
RECURSIVE LongWords(_)
LongWords(words) ==
  IF words = <<>> THEN <<>>
  ELSE (IF Len(Head(words)) > 2 THEN <<Head(words)>> ELSE <<>>) \o LongWords(Tail(words))

\* words.filter(word => text.includes(word))
RECURSIVE FoundWords(_, _)
FoundWords(words, text) ==
  IF words = <<>> THEN <<>>
  ELSE (IF includes(text, Head(words)) THEN <<Head(words)>> ELSE <<>>)
         \o FoundWords(Tail(words), text)

\* MLEngine.preprocessText
preprocessText(text) == trim(CollapseWhitespace(ReplacePunctuation(toLowerCase(text))))

spoilerKeywords ==
  <<<<"s", "p", "o", "i", "l", "e", "r">>,
    <<"s", "p", "o", "i", "l", "e", "r", "s">>,
    <<"e", "n", "d", "i", "n", "g">>,
    <<"f", "i", "n", "a", "l", "e">>,
    <<"d", "i", "e", "s">>,
    <<"d", "e", "a", "t", "h">>,
    <<"w", "i", "n", "n", "e", "r">>,
    <<"w", "i", "n", "s">>,
    <<"l", "o", "s", "e", "s">>,
    <<"r", "e", "s", "u", "l", "t">>,
    <<"r", "e", "s", "u", "l", "t", "s">>,
    <<"o", "u", "t", "c", "o", "m", "e">>,
    <<"p", "l", "o", "t">>,
    <<"t", "w", "i", "s", "t">>,
    <<"r", "e", "v", "e", "a", "l">>,
    <<"r", "e", "v", "e", "a", "l", "e", "d">>,
    <<"l", "e", "a", "k", "e", "d">>>>

\* --------------------------------------------------------- detection engines
\* Confidences are counted in units of 1/6000, so that the averages and the
\* k/n fractions of the code are whole numbers: 0.01 is ConfUnit units.
ConfUnit == 60
Conf(hundredths) == hundredths * ConfUnit

\* MLEngine constructor: this.thresholds and this.contextWeights (in tenths)
DefaultConfig ==
  [thresholds |-> [low |-> Conf(30), medium |-> Conf(60), high |-> Conf(80)],
   contextWeights |-> [title |-> 10, body |-> 8, comment |-> 6, username |-> 3, subreddit |-> 4]]

NoContext == [type |-> "none", isRecent |-> FALSE]

\* findFuzzyMatches: is any variation of the term in the text
findFuzzyMatches(text, term) ==
  \E variation \in {term, term \o <<"s">>, term \o <<"e", "d">>, term \o <<"i", "n", "g">>,
                    IF term # <<>> /\ term[Len(term)] = "s"
                    THEN SubSeq(term, 1, Len(term) - 1) ELSE term} :
    includes(text, variation)

\* analyzeContextualMatch
analyzeContextualMatch(text, term) ==
  /\ \E i \in 1..Len(spoilerKeywords) : includes(text, spoilerKeywords[i])
  /\ includes(text, split(term)[1])

NotFound == [found |-> FALSE, type |-> "none", confidence |-> 0]

\* a threshold rounded down
Floor70(n) == (7 * n) \div 10

\* Math.ceil(n * 0.7)
Ceil70(n) == (7 * n + 9) \div 10

\* an analyzeTerm that tries the contextual tier before the multi-word tiers
analyzeTermContextFirst(text, term) ==
  LET multi == includes(term, <<" ">>)
      words == LongWords(split(term))
      foundWords == FoundWords(words, text)
  IN IF includes(text, term)
     THEN [found |-> TRUE, type |-> "exact", confidence |-> Conf(95)]
     ELSE IF ~multi /\ findFuzzyMatches(text, term)
     THEN [found |-> TRUE, type |-> "fuzzy", confidence |-> Conf(70)]
     ELSE IF analyzeContextualMatch(text, term)
     THEN [found |-> TRUE, type |-> "contextual", confidence |-> Conf(50)]
     ELSE IF multi /\ Len(foundWords) = Len(words)
     THEN [found |-> TRUE, type |-> "multi_word_complete", confidence |-> Conf(90)]
     ELSE IF multi /\ Len(foundWords) >= Ceil70(Len(words))
     THEN [found |-> TRUE, type |-> "multi_word_partial",
           confidence |-> Conf(60) + (Len(foundWords) * Conf(20)) \div Len(words)]
     ELSE NotFound

\* MLEngine.analyzeTerm: the first tier that succeeds
analyzeTerm(text, term) ==
  LET multi == includes(term, <<" ">>)
      words == LongWords(split(term))
      foundWords == FoundWords(words, text)
  IN IF includes(text, term)
     THEN [found |-> TRUE, type |-> "exact", confidence |-> Conf(95)]
     ELSE IF ~multi /\ findFuzzyMatches(text, term)
     THEN [found |-> TRUE, type |-> "fuzzy", confidence |-> Conf(70)]
     ELSE IF multi /\ Len(foundWords) = Len(words)
     THEN [found |-> TRUE, type |-> "multi_word_complete", confidence |-> Conf(90)]
     ELSE IF multi /\ Len(foundWords) >= Ceil70(Len(words))
     THEN [found |-> TRUE, type |-> "multi_word_partial",
           confidence |-> Conf(60) + (Len(foundWords) * Conf(20)) \div Len(words)]
     ELSE IF analyzeContextualMatch(text, term)
     THEN [found |-> TRUE, type |-> "contextual", confidence |-> Conf(50)]
     ELSE NotFound

\* MLEngine.findSpoilerMatches
RECURSIVE findSpoilerMatches(_, _)
findSpoilerMatches(text, watchlist) ==
  IF watchlist = <<>> THEN <<>>
  ELSE LET term == Head(watchlist)
           termLower == trim(toLowerCase(term))
           match == IF termLower = <<>> THEN NotFound ELSE analyzeTerm(text, termLower)
       IN (IF match.found
           THEN <<[term |-> term, matchType |-> match.type, confidence |-> match.confidence]>>
           ELSE <<>>) \o findSpoilerMatches(text, Tail(watchlist))

\* the terms findSpoilerMatches hands to analyzeTerm
RECURSIVE TermsAnalyzed(_)
TermsAnalyzed(watchlist) ==
  IF watchlist = <<>> THEN 0
  ELSE (IF trim(toLowerCase(Head(watchlist))) = <<>> THEN 0 ELSE 1) + TermsAnalyzed(Tail(watchlist))

RECURSIVE SumConfidence(_, _)
SumConfidence(matches, weight) ==
  IF matches = <<>> THEN 0
  ELSE Head(matches).confidence * weight + SumConfidence(Tail(matches), weight)

Min(a, b) == IF a < b THEN a ELSE b

\* this.contextWeights[context.type] || 1.0
WeightOf(config, context) ==
  IF context.type \in DOMAIN config.contextWeights /\ config.contextWeights[context.type] # 0
  THEN config.contextWeights[context.type] ELSE 10

\* MLEngine.calculateConfidence
calculateConfidence(matches, context, config) ==
  IF matches = <<>> THEN 0
  ELSE LET weight == WeightOf(config, context)
           base == SumConfidence(matches, weight) \div (Len(matches) * weight)
           multi == IF Len(matches) > 1
                    THEN Min(Conf(95), base + (Len(matches) - 1) * Conf(10)) ELSE base
           recent == IF context.isRecent THEN Min(Conf(95), multi + Conf(10)) ELSE multi
           typed == IF context.type = "title" THEN Min(Conf(95), recent + Conf(5)) ELSE recent
       IN ((typed + ConfUnit \div 2) \div ConfUnit) * ConfUnit

\* MLEngine.createResult (without timestamp and version), and the number of
\* terms the call ran analyzeTerm on
createResult(hasSpoiler, confidence, matches, evaluated) ==
  [hasSpoiler |-> hasSpoiler, confidence |-> confidence,
   matchedTerms |-> [i \in 1..Len(matches) |-> matches[i].term],
   detailedMatches |-> matches, evaluated |-> evaluated]

NoResult == createResult(FALSE, 0, <<>>, 0)

\* MLEngine.analyzeText for a string text, from `cleanText = ...` on
MLAnalyze(text, watchlist, context, config) ==
  LET cleanText == preprocessText(text)
      matches == findSpoilerMatches(cleanText, watchlist)
      confidence == calculateConfidence(matches, context, config)
  IN createResult(confidence >= config.thresholds.low, confidence, matches,
                  TermsAnalyzed(watchlist))

PartialSuffix == <<" ", "(", "p", "a", "r", "t", "i", "a", "l", ")">>

\* SpoilerDetector.analyzeText: the loop over the watchlist
RECURSIVE DetectorMatches(_, _)
DetectorMatches(textLower, watchlist) ==
  IF watchlist = <<>> THEN <<>>
  ELSE LET term == Head(watchlist)
           termLower == toLowerCase(term)
           words == LongWords(split(termLower))
           foundWords == FoundWords(words, textLower)
       IN (IF includes(textLower, termLower) THEN <<term>>
           ELSE IF includes(termLower, <<" ">>) /\ Len(foundWords) = Len(words) THEN <<term>>
           ELSE IF includes(termLower, <<" ">>) /\ Len(foundWords) >= Ceil70(Len(words))
                THEN <<term \o PartialSuffix>>
           ELSE <<>>) \o DetectorMatches(textLower, Tail(watchlist))

\* [...new Set(matchedTerms)]
RECURSIVE Dedup(_)
Dedup(seq) ==
  IF seq = <<>> THEN <<>>
  ELSE LET rest == Dedup(SubSeq(seq, 1, Len(seq) - 1))
           last == seq[Len(seq)]
       IN IF \E i \in 1..Len(rest) : rest[i] = last THEN rest ELSE Append(rest, last)

\* SpoilerDetector.analyzeText for a string text, after getWatchlist
DetectorAnalyze(text, watchlist) ==
  LET matchedTerms == DetectorMatches(toLowerCase(text), watchlist)
      hasSpoiler == Len(matchedTerms) > 0
  IN [hasSpoiler |-> hasSpoiler,
      confidence |-> IF hasSpoiler THEN Min(Conf(95), Conf(60) + Len(matchedTerms) * Conf(10)) ELSE 0,
      matchedTerms |-> Dedup(matchedTerms),
      detailedMatches |-> <<>>, evaluated |-> Len(watchlist)]

\* ------------------------------------ watchlist, statistics, analysis calls
VARIABLES
  watchlist,        \* AsyncStorage item 'spoiler_shield_watchlist'
  stats,            \* AsyncStorage item 'spoiler_shield_stats'
  config,           \* MLEngine's thresholds and contextWeights
  calls,            \* the analyzeText calls, by call
  nCompleted,       \* analyzeText calls that have returned
  nSpoilers,        \* those of them that returned hasSpoiler = true
  wlOps             \* the watchlist call of each user

detectVars == <<watchlist, stats, config, calls, nCompleted, nSpoilers, wlOps>>

Analyses == {1, 2}
Users == {1, 2}
Engines == {"MLEngine", "SpoilerDetector"}

\* the strings texts and terms are put together from
TermPieces == {<<"g", "o", "t">>, <<"G", "o", "t">>, <<" ">>, <<"-">>}
TextPieces == TermPieces \cup {<<"s">>, <<"d", "i", "e", "s">>}

\* all concatenations of at most n pieces
RECURSIVE Concats(_, _)
Concats(pieces, n) ==
  IF n = 0 THEN {<<>>}
  ELSE LET shorter == Concats(pieces, n - 1)
       IN shorter \cup {s \o piece : s \in shorter, piece \in pieces}

Terms(n) == Concats(TermPieces, n) \ {<<>>}
Watchlists(n, k) == UNION {[1..m -> Terms(n)] : m \in 0..k}

\* the first argument of analyzeText: a string, or a value that is none
NotAString == [isString |-> FALSE, chars |-> <<>>]
TextInputs(n) == {NotAString} \cup {[isString |-> TRUE, chars |-> t] : t \in Concats(TextPieces, n)}

Contexts ==
  {NoContext, [type |-> "title", isRecent |-> FALSE], [type |-> "body", isRecent |-> TRUE]}

\* what updateConfig is called with
ConfigUpdates == {[thresholds |-> [low |-> Conf(96)]]}

ZeroStats == [spoilersBlocked |-> 0, postsScanned |-> 0]

IdleCall ==
  [pc |-> "idle", engine |-> "none", text |-> NotAString, context |-> NoContext,
   watchlist |-> <<>>, stats |-> ZeroStats, increment |-> ZeroStats,
   returned |-> FALSE, result |-> NoResult]

IdleOp == [pc |-> "idle", op |-> "none", term |-> <<>>, list |-> <<>>, ret |-> FALSE]

\* an analyzeText that has no early return for its text
NoTextNever(text) == FALSE

\* !text || typeof text !== 'string'
NoText(text) == ~text.isString \/ text.chars = <<>>

\* analyzeText (either engine) up to its first await: it returns at once for
\* a text that is empty or not a string, else it issues getWatchlist
analyzeText(c, engine, text, context) ==
  /\ calls[c].pc = "idle"
  /\ IF NoText(text)
     THEN /\ calls' = [calls EXCEPT ![c] =
                 [IdleCall EXCEPT !.pc = "done", !.engine = engine, !.text = text,
                                  !.context = context, !.returned = TRUE]]
          /\ nCompleted' = nCompleted + 1
     ELSE /\ calls' = [calls EXCEPT ![c] =
                 [IdleCall EXCEPT !.pc = "watchlist", !.engine = engine, !.text = text,
                                  !.context = context, !.watchlist = watchlist]]
          /\ UNCHANGED nCompleted
  /\ UNCHANGED <<watchlist, stats, config, nSpoilers, wlOps>>

\* the increment the engines hand to StorageService.updateStats
Increment(hasSpoiler) ==
  [spoilersBlocked |-> IF hasSpoiler THEN 1 ELSE 0, postsScanned |-> 1]

\* analyzeText after `await StorageService.getWatchlist()`. MLEngine returns
\* for an empty watchlist, else it matches and awaits updateStats, which
\* issues getStats. SpoilerDetector matches, starts updateStats without
\* awaiting it, and returns
AnalyzeMatch(c) ==
  /\ calls[c].pc = "watchlist"
  /\ LET call == calls[c]
         result == IF call.engine = "MLEngine"
                   THEN MLAnalyze(call.text.chars, call.watchlist, call.context, config)
                   ELSE DetectorAnalyze(call.text.chars, call.watchlist)
     IN IF call.engine = "MLEngine" /\ call.watchlist = <<>>
        THEN /\ calls' = [calls EXCEPT ![c] = [call EXCEPT !.pc = "done", !.returned = TRUE]]
             /\ nCompleted' = nCompleted + 1
             /\ UNCHANGED nSpoilers
        ELSE /\ calls' = [calls EXCEPT ![c] =
                    [call EXCEPT !.pc = "stats", !.result = result, !.stats = stats,
                                 !.increment = Increment(result.hasSpoiler),
                                 !.returned = (call.engine = "SpoilerDetector")]]
             /\ IF call.engine = "SpoilerDetector"
                THEN /\ nCompleted' = nCompleted + 1
                     /\ nSpoilers' = nSpoilers + (IF result.hasSpoiler THEN 1 ELSE 0)
                ELSE UNCHANGED <<nCompleted, nSpoilers>>
  /\ UNCHANGED <<watchlist, stats, config, wlOps>>

\* StorageService.updateStats after `await this.getStats()`: it writes the
\* stats it read plus the increment; MLEngine.analyzeText then returns
StatsWrite(c) ==
  /\ calls[c].pc = "stats"
  /\ LET call == calls[c]
     IN /\ stats' = [spoilersBlocked |-> call.stats.spoilersBlocked + call.increment.spoilersBlocked,
                     postsScanned |-> call.stats.postsScanned + call.increment.postsScanned]
        /\ calls' = [calls EXCEPT ![c] = [call EXCEPT !.pc = "done", !.returned = TRUE]]
        /\ IF call.engine = "MLEngine"
           THEN /\ nCompleted' = nCompleted + 1
                /\ nSpoilers' = nSpoilers + (IF call.result.hasSpoiler THEN 1 ELSE 0)
           ELSE UNCHANGED <<nCompleted, nSpoilers>>
  /\ UNCHANGED <<watchlist, config, wlOps>>

\* MLEngine.updateConfig with thresholds only
updateConfig(newConfig) ==
  /\ config' = [config EXCEPT !.thresholds.low = newConfig.thresholds.low]
  /\ UNCHANGED <<watchlist, stats, calls, nCompleted, nSpoilers, wlOps>>

\* a comparison of terms that tells the cases apart
SameTermExact(item, term) == item = term

\* item.toLowerCase() === term.toLowerCase()
SameTerm(item, term) == toLowerCase(item) = toLowerCase(term)

\* watchlist.filter(item => item.toLowerCase() !== term.toLowerCase())
RECURSIVE Without(_, _)
Without(list, term) ==
  IF list = <<>> THEN <<>>
  ELSE (IF SameTerm(Head(list), term) THEN <<>> ELSE <<Head(list)>>) \o Without(Tail(list), term)

\* addToWatchlist / removeFromWatchlist up to `await this.getWatchlist()`
WatchlistCall(u, op, term) ==
  /\ wlOps[u].pc \in {"idle", "done"}
  /\ op = "add" => Len(watchlist) < MaxWatchlist
  /\ wlOps' = [wlOps EXCEPT ![u] = [pc |-> "read", op |-> op, term |-> term,
                                     list |-> watchlist, ret |-> FALSE]]
  /\ UNCHANGED <<watchlist, stats, config, calls, nCompleted, nSpoilers>>

\* addToWatchlist after getWatchlist: push and save, or `return false`
AddDecide(u) ==
  /\ wlOps[u].pc = "read"
  /\ wlOps[u].op = "add"
  /\ LET list == wlOps[u].list
         term == wlOps[u].term
     IN IF \E i \in 1..Len(list) : SameTerm(list[i], term)
        THEN /\ wlOps' = [wlOps EXCEPT ![u].pc = "done", ![u].ret = FALSE]
             /\ UNCHANGED watchlist
        ELSE /\ watchlist' = Append(list, term)
             /\ wlOps' = [wlOps EXCEPT ![u].pc = "done", ![u].ret = TRUE]
  /\ UNCHANGED <<stats, config, calls, nCompleted, nSpoilers>>

\* removeFromWatchlist after getWatchlist: filter and save
RemoveSave(u) ==
  /\ wlOps[u].pc = "read"
  /\ wlOps[u].op = "remove"
  /\ watchlist' = Without(wlOps[u].list, wlOps[u].term)
  /\ wlOps' = [wlOps EXCEPT ![u].pc = "done", ![u].ret = TRUE]
  /\ UNCHANGED <<stats, config, calls, nCompleted, nSpoilers>>

\* clear: the screens call saveWatchlist([])
clearWatchlist(u) ==
  /\ wlOps[u].pc \in {"idle", "done"}
  /\ watchlist' = <<>>
  /\ wlOps' = [wlOps EXCEPT ![u] = [pc |-> "done", op |-> "clear", term |-> <<>>,
                                     list |-> <<>>, ret |-> TRUE]]
  /\ UNCHANGED <<stats, config, calls, nCompleted, nSpoilers>>

\* no statistics stored, no call made, the engine as constructed
InitEngine ==
  /\ stats = ZeroStats
  /\ config = DefaultConfig
  /\ calls = [c \in Analyses |-> IdleCall]
  /\ nCompleted = 0
  /\ nSpoilers = 0
  /\ wlOps = [u \in Users |-> IdleOp]

\* nothing stored, no call made
InitDetect == watchlist = <<>> /\ InitEngine

\* ----------------------------------------------------------- adapter requests
VARIABLES
  request           \* each caller's position in makeRequest / fetchRSSFeed

reqVars == <<request>>

IdleRequest == [pc |-> "idle", platform |-> "none", threw |-> FALSE, grantsBefore |-> 0]

\* the adapters whose makeRequest throws when no credential is set
NeedsToken(p) == p \in {"twitter", "youtube", "facebook", "instagram"}

\* the acquires granted to a caller so far
GrantsTo(c) == SelectSeq(grantLog, LAMBDA g : g.caller = c)

\* makeRequest (fetchRSSFeed for news) up to `await this.enforceRateLimit()`:
\* it throws when the adapter needs a credential and has none, else it runs
\* enforceRateLimit up to its await
makeRequest(c, p, hasToken) ==
  /\ request[c].pc = "idle"
  /\ IF NeedsToken(p) /\ ~hasToken
     THEN /\ request' = [request EXCEPT ![c] = [IdleRequest EXCEPT !.threw = TRUE]]
          /\ UNCHANGED rateVars
     ELSE /\ Acquire(c, p)
          /\ request' = [request EXCEPT ![c] =
                 [pc |-> "acquire", platform |-> p, threw |-> FALSE,
                  grantsBefore |-> Len(GrantsTo(c))]]

\* a request that does not wait for its acquire
MayFetchAtOnce(c) == TRUE

\* `await this.enforceRateLimit()` has returned
MayFetch(c) == caller[c].pc = "idle"

\* makeRequest after the acquire: it builds the URL and calls fetch
FetchIssue(c) ==
  /\ request[c].pc = "acquire"
  /\ MayFetch(c)
  /\ request' = [request EXCEPT ![c].pc = "fetch"]
  /\ UNCHANGED rateVars

\* the response arrives: makeRequest returns its data, or throws
Respond(c, ok) ==
  /\ request[c].pc = "fetch"
  /\ request' = [request EXCEPT ![c] = [IdleRequest EXCEPT !.threw = ~ok]]
  /\ UNCHANGED rateVars

InitRequests == request = [c \in Callers |-> IdleRequest]

\* -------------------------------------------------------- adapter credentials
VARIABLES
  token,            \* the in-memory credential of each platform's adapter
  credLoad,         \* the constructor-started loadCredentials of each adapter
  credCall          \* the setCredentials call in flight

credVars == <<token, credLoad, credCall>>

\* the platforms whose adapter keeps a credential, and their singletons
CredPlatforms == {"twitter", "youtube", "facebook", "instagram"}
CredAdapters == {"TwitterAPI", "YouTubeAPI", "SocialMediaAPI"}

\* what setCredentials is called with
NewTokens == {"tok", "new"}

\* the platform whose item an adapter's loadCredentials reads first
FirstRead(a) ==
  CASE a = "TwitterAPI" -> "twitter"
    [] a = "YouTubeAPI" -> "youtube"
    [] OTHER -> "facebook"

IdleCredCall == [pc |-> "idle", platform |-> "none", token |-> NoItem]

\* setCredentials / setFacebookCredentials / setInstagramCredentials up to
\* `await AsyncStorage.setItem(...)`
setCredentials(p, t) ==
  /\ credCall.pc \in {"idle", "resolved"}
  /\ token' = [token EXCEPT ![p] = t]
  /\ store' = [store EXCEPT ![CredentialKey(p)] = t]
  /\ credCall' = [pc |-> "saving", platform |-> p, token |-> t]
  /\ UNCHANGED credLoad

\* setItem has resolved, and with it setCredentials
SetCredentialsResolves ==
  /\ credCall.pc = "saving"
  /\ credCall' = [credCall EXCEPT !.pc = "resolved"]
  /\ UNCHANGED <<token, credLoad, store>>

\* if (loaded) this.token = loaded
Loaded(current, loaded) == IF Truthy(loaded) THEN loaded ELSE current

\* loadCredentials of TwitterAPI / YouTubeAPI after its getItem
LoadCredentialsDone(a) ==
  /\ a # "SocialMediaAPI"
  /\ credLoad[a].pc = "first"
  /\ token' = [token EXCEPT ![FirstRead(a)] = Loaded(@, credLoad[a].first)]
  /\ credLoad' = [credLoad EXCEPT ![a].pc = "done"]
  /\ UNCHANGED <<credCall, store>>

\* SocialMediaAPI.loadCredentials after getItem('facebook_access_token'): it
\* issues getItem('instagram_access_token')
LoadSecondRead ==
  /\ credLoad["SocialMediaAPI"].pc = "first"
  /\ credLoad' = [credLoad EXCEPT !["SocialMediaAPI"].pc = "second",
                                  !["SocialMediaAPI"].second = store[CredentialKey("instagram")]]
  /\ UNCHANGED <<token, credCall, store>>

\* SocialMediaAPI.loadCredentials after its second getItem
LoadSocialDone ==
  /\ credLoad["SocialMediaAPI"].pc = "second"
  /\ token' = [token EXCEPT
                 !["facebook"] = Loaded(@, credLoad["SocialMediaAPI"].first),
                 !["instagram"] = Loaded(@, credLoad["SocialMediaAPI"].second)]
  /\ credLoad' = [credLoad EXCEPT !["SocialMediaAPI"].pc = "done"]
  /\ UNCHANGED <<credCall, store>>

\* the adapters as their constructors leave them on items stored earlier:
\* no credential in memory, loadCredentials started, its first getItem issued
InitCredentials ==
  /\ token = [p \in CredPlatforms |-> NoItem]
  /\ credLoad = [a \in CredAdapters |->
                   [pc |-> "first", first |-> store[CredentialKey(FirstRead(a))], second |-> NoItem]]
  /\ credCall = IdleCredCall

\* ------------------------------------------------------- protected screens
VARIABLES
  posts,              \* ProtectedRedditFeed: the analysed posts, by id
  spoilerStates,      \* ProtectedRedditFeed: {revealed, hidden} of each post
  showSpoilerOverlay, \* ProtectedWebView: the overlay covers the page
  detectionResult,    \* ProtectedWebView: the result shown in the overlay
  webMessage,         \* ProtectedWebView: the handleMessage call in flight
  webPage             \* the page in the web view: was it flagged, and what
                      \* the user chose on its overlay

screenVars == <<posts, spoilerStates, showSpoilerOverlay, detectionResult, webMessage, webPage>>

PostIds == 1..MaxPosts

\* what analyzePosts / SpoilerDetector.analyzeText hand to the screens
NoSpoiler == [hasSpoiler |-> FALSE, confidence |-> 0]
PostAnalyses == {NoSpoiler, [hasSpoiler |-> TRUE, confidence |-> Conf(50)],
                 [hasSpoiler |-> TRUE, confidence |-> Conf(95)]}
WebResults == {NoSpoiler, [hasSpoiler |-> TRUE, confidence |-> Conf(70)]}

\* analyzePosts: the post with its analysis and isProtected
AnalyzedPost(analysis) ==
  [spoilerAnalysis |-> analysis,
   isProtected |-> analysis.hasSpoiler /\ analysis.confidence > Conf(30)]

NoSpoilerState == [revealed |-> FALSE, hidden |-> FALSE]

\* renderPost: the overlay is rendered in place of title, text and media
shouldShowSpoilerOverlay(id) ==
  posts[id].isProtected /\ ~spoilerStates[id].revealed /\ ~spoilerStates[id].hidden

\* loadInitialPosts (also on refresh): new posts, no spoiler states
loadInitialPosts(analyses) ==
  /\ posts' = [id \in PostIds |-> AnalyzedPost(analyses[id])]
  /\ spoilerStates' = [id \in PostIds |-> NoSpoilerState]
  /\ UNCHANGED <<showSpoilerOverlay, detectionResult, webMessage, webPage>>

\* the overlay's Show Content button on a post
revealPost(id) ==
  /\ shouldShowSpoilerOverlay(id)
  /\ spoilerStates' = [spoilerStates EXCEPT ![id].revealed = TRUE]
  /\ UNCHANGED <<posts, showSpoilerOverlay, detectionResult, webMessage, webPage>>

\* the overlay's Keep Hidden button on a post
hidePost(id) ==
  /\ shouldShowSpoilerOverlay(id)
  /\ spoilerStates' = [spoilerStates EXCEPT ![id].hidden = TRUE]
  /\ UNCHANGED <<posts, showSpoilerOverlay, detectionResult, webMessage, webPage>>

NoPage == [url |-> "none", flagged |-> FALSE, choice |-> "none"]
Urls == {"page", "other"}

\* ProtectedWebView.handleLoadStart: a page starts to load
handleLoadStart(url) ==
  /\ showSpoilerOverlay' = FALSE
  /\ detectionResult' = NoSpoiler
  /\ webPage' = [NoPage EXCEPT !.url = url]
  /\ UNCHANGED <<posts, spoilerStates, webMessage>>

\* handleMessage for a CONTENT_EXTRACTED message up to `await
\* SpoilerDetector.analyzeText(content)`; content of 50 characters or fewer
\* is not analysed
handleMessage(long) ==
  /\ webPage.url # "none"
  /\ webMessage.pc = "idle"
  /\ webMessage' = [pc |-> IF long THEN "analyzing" ELSE "idle", long |-> long]
  /\ UNCHANGED <<posts, spoilerStates, showSpoilerOverlay, detectionResult, webPage>>

\* handleMessage after the analysis
MessageAnalyzed(result) ==
  /\ webMessage.pc = "analyzing"
  /\ webMessage' = [webMessage EXCEPT !.pc = "idle"]
  /\ IF result.hasSpoiler /\ result.confidence > Conf(50)
     THEN /\ detectionResult' = result
          /\ showSpoilerOverlay' = TRUE
          /\ webPage' = [webPage EXCEPT !.flagged = TRUE, !.choice = "none"]
     ELSE UNCHANGED <<detectionResult, showSpoilerOverlay, webPage>>
  /\ UNCHANGED <<posts, spoilerStates>>

\* the overlay's Show Content button on the page
handleRevealContent ==
  /\ showSpoilerOverlay
  /\ showSpoilerOverlay' = FALSE
  /\ detectionResult' = NoSpoiler
  /\ webPage' = [webPage EXCEPT !.choice = "reveal"]
  /\ UNCHANGED <<posts, spoilerStates, webMessage>>

\* the overlay's Keep Hidden button on the page, up to the alert
handleKeepHidden ==
  /\ showSpoilerOverlay
  /\ showSpoilerOverlay' = FALSE
  /\ detectionResult' = NoSpoiler
  /\ webPage' = [webPage EXCEPT !.choice = "keep"]
  /\ UNCHANGED <<posts, spoilerStates, webMessage>>

\* the feed with posts that hold no spoiler, the web view before its first
\* page
InitScreens ==
  /\ posts = [id \in PostIds |-> AnalyzedPost(NoSpoiler)]
  /\ spoilerStates = [id \in PostIds |-> NoSpoilerState]
  /\ showSpoilerOverlay = FALSE
  /\ detectionResult = NoSpoiler
  /\ webMessage = [pc |-> "idle", long |-> FALSE]
  /\ webPage = NoPage

\* --------------------------------------------------------- settings screen
VARIABLES
  screenStats,      \* SettingsScreen's stats state
  statsLoad,        \* the loadStats the screen's mount effect started
  resets            \* the Reset / Clear All handlers, by press

settingsVars == <<screenStats, statsLoad, resets>>

Presses == {1, 2}

IdlePress == [pc |-> "idle", kind |-> "none", increment |-> ZeroStats, read |-> ZeroStats]

\* { spoilersBlocked: -stats.spoilersBlocked, postsScanned: -stats.postsScanned }
Negated(st) == [spoilersBlocked |-> 0 - st.spoilersBlocked, postsScanned |-> 0 - st.postsScanned]

\* SettingsScreen.loadStats, from the mount effect, up to `await getStats()`
loadStats ==
  /\ statsLoad.pc = "idle"
  /\ statsLoad' = [pc |-> "read", read |-> stats]
  /\ UNCHANGED <<screenStats, resets>>
  /\ UNCHANGED detectVars

\* loadStats after getStats: setStats(currentStats)
StatsLoaded ==
  /\ statsLoad.pc = "read"
  /\ screenStats' = statsLoad.read
  /\ statsLoad' = [statsLoad EXCEPT !.pc = "idle"]
  /\ UNCHANGED resets
  /\ UNCHANGED detectVars

\* the Reset button of the Reset Statistics alert: updateStats is called with
\* the negated stats of the screen and issues getStats
resetStats(h) ==
  /\ resets[h].pc = "idle"
  /\ resets' = [resets EXCEPT ![h] =
        [pc |-> "update", kind |-> "reset", increment |-> Negated(screenStats), read |-> stats]]
  /\ UNCHANGED <<screenStats, statsLoad>>
  /\ UNCHANGED detectVars

\* the Clear All button of the Clear All Data alert, up to `await
\* StorageService.saveWatchlist([])`
clearAllData(h) ==
  /\ resets[h].pc = "idle"
  /\ watchlist' = <<>>
  /\ resets' = [resets EXCEPT ![h] =
        [pc |-> "save", kind |-> "clear", increment |-> Negated(screenStats), read |-> ZeroStats]]
  /\ UNCHANGED <<screenStats, statsLoad>>
  /\ UNCHANGED <<stats, config, calls, nCompleted, nSpoilers, wlOps>>

\* clearAllData after saveWatchlist: updateStats is called and issues getStats
ClearUpdate(h) ==
  /\ resets[h].pc = "save"
  /\ resets' = [resets EXCEPT ![h].pc = "update", ![h].read = stats]
  /\ UNCHANGED <<screenStats, statsLoad>>
  /\ UNCHANGED detectVars

\* updateStats after getStats: it writes the stats it read plus the increment
ResetWrite(h) ==
  /\ resets[h].pc = "update"
  /\ stats' = [spoilersBlocked |-> resets[h].read.spoilersBlocked + resets[h].increment.spoilersBlocked,
                postsScanned |-> resets[h].read.postsScanned + resets[h].increment.postsScanned]
  /\ resets' = [resets EXCEPT ![h].pc = "written"]
  /\ UNCHANGED <<screenStats, statsLoad>>
  /\ UNCHANGED <<watchlist, config, calls, nCompleted, nSpoilers, wlOps>>

\* the handler after updateStats: `await loadStats()` issues getStats
ResetReload(h) ==
  /\ resets[h].pc = "written"
  /\ resets' = [resets EXCEPT ![h].pc = "reload", ![h].read = stats]
  /\ UNCHANGED <<screenStats, statsLoad>>
  /\ UNCHANGED detectVars

\* the handler's loadStats after getStats: setStats, and the handler ends
ResetDone(h) ==
  /\ resets[h].pc = "reload"
  /\ screenStats' = resets[h].read
  /\ resets' = [resets EXCEPT ![h].pc = "done"]
  /\ UNCHANGED statsLoad
  /\ UNCHANGED detectVars

\* the screen before its mount effect has run
InitSettings ==
  /\ screenStats = ZeroStats
  /\ statsLoad = [pc |-> "idle", read |-> ZeroStats]
  /\ resets = [h \in Presses |-> IdlePress]

clientVars == <<reqVars, credVars, screenVars, settingsVars>>

InitClient == InitRequests /\ InitCredentials /\ InitScreens /\ InitSettings

\* ------------------------------------------------------------ specifications
vars == <<regVars, fetchVars, rateVars, probeVars, detectVars, clientVars>>

\* no getUnifiedFeed call was made yet
NoFetch ==
  /\ fetchPc = "idle"
  /\ enabledPlatforms = {}
  /\ task = [p \in Platforms |-> "none"]
  /\ netFailed = [p \in Platforms |-> FALSE]
  /\ results = [p \in Platforms |-> NoEntry]
  /\ resultKeys = <<>>
  /\ feed = <<>>
  /\ deadlineExpired = FALSE

\* first start of the process. No code of the repository writes
\* reddit_client_id, but checkPlatformConfigurations reads it: whether the
\* credential store holds it is the store's, so both cases are initial states
InitRegistry ==
  /\ platforms = DefaultPlatforms
  /\ platform_states = NoStates
  /\ \E rid \in {NoItem, "tok"} :
       store = [k \in CredentialKeys |-> IF k = "reddit_client_id" THEN rid ELSE NoItem]
  /\ loadPc = "states"
  /\ loadStates = NoStates
  /\ loadBuf = NoItem
  /\ cfg = IdleCfg
  /\ callResult = NoCall
  /\ nOps = 0
  /\ NoFetch
  /\ InitRate
  /\ InitProbe
  /\ InitClient
  /\ InitDetect

NextRegistry ==
  \/ LoadMerge /\ UNCHANGED <<fetchVars, rateVars, probeVars, detectVars, clientVars>>
  \/ \E p \in Platforms : CheckConfigured(p) /\ UNCHANGED <<fetchVars, rateVars, probeVars, detectVars, clientVars>>
  \/ LoadDone /\ UNCHANGED <<fetchVars, rateVars, probeVars, detectVars, clientVars>>
  \/ \E p \in Platforms, enabled \in BOOLEAN :
       setPlatformEnabled(p, enabled) /\ UNCHANGED <<fetchVars, rateVars, probeVars, detectVars, clientVars>>
  \/ \E p \in Platforms, credentials \in Tokens :
       configurePlatform(p, credentials) /\ UNCHANGED <<fetchVars, rateVars, probeVars, detectVars, clientVars>>
  \/ ConfigureMark /\ UNCHANGED <<fetchVars, rateVars, probeVars, detectVars, clientVars>>
  \/ ConfigureDone /\ UNCHANGED <<fetchVars, rateVars, probeVars, detectVars, clientVars>>
  \/ Restart /\ UNCHANGED <<fetchVars, rateVars, probeVars, detectVars, clientVars>>

SpecRegistry == InitRegistry /\ [][NextRegistry]_vars

\* checkPlatformConfigurations as a whole: every flag it sets
CheckedPlatforms(pl, st) ==
  [p \in Platforms |->
     [enabled |-> pl[p].enabled,
      configured |-> IF p = "news" THEN TRUE ELSE Truthy(st[CredentialKey(p)])]]

\* a later start of the process, after loadPlatformStates has finished: an
\* earlier session left its enabled flags and credentials in AsyncStorage
InitFetch ==
  /\ \E enabledBefore \in SUBSET Platforms, st \in [CredentialKeys -> {NoItem, "tok"}] :
       /\ Cardinality(enabledBefore) <= MaxSources
       /\ store = st
       /\ platforms =
            CheckedPlatforms(
              MergeStates(DefaultPlatforms,
                          [present |-> TRUE,
                           states |-> [p \in Platforms |->
                                         [enabled |-> p \in enabledBefore, configured |-> FALSE]]]),
              st)
  /\ platform_states = StatesSnapshot(platforms)
  /\ loadPc = "done"
  /\ loadStates = NoStates
  /\ loadBuf = NoItem
  /\ cfg = IdleCfg
  /\ callResult = NoCall
  /\ nOps = 0
  /\ NoFetch
  /\ InitRate
  /\ InitProbe
  /\ InitClient
  /\ InitDetect

NextFetch ==
  \/ StartFetch /\ UNCHANGED <<rateVars, probeVars, detectVars, clientVars>>
  \/ \E p \in Platforms, resp \in Responses : TaskComplete(p, resp) /\ UNCHANGED <<rateVars, probeVars, detectVars, clientVars>>
  \/ \E p \in Platforms : TaskSilent(p) /\ UNCHANGED <<rateVars, probeVars, detectVars, clientVars>>
  \/ FetchReturn /\ UNCHANGED <<rateVars, probeVars, detectVars, clientVars>>
  \/ DeadlineExpires /\ UNCHANGED <<rateVars, probeVars, detectVars, clientVars>>

SpecFetch == InitFetch /\ [][NextFetch]_vars

\* every request that is not silent gets its answer, every settled call
\* returns, and the caller's deadline passes
FairSpecFetch ==
  /\ SpecFetch
  /\ WF_vars(FetchReturn /\ UNCHANGED <<rateVars, probeVars, detectVars, clientVars>>)
  /\ WF_vars(DeadlineExpires /\ UNCHANGED <<rateVars, probeVars, detectVars, clientVars>>)
  /\ \A p \in Platforms :
       WF_vars((TaskSilent(p) \/ \E resp \in Responses : TaskComplete(p, resp)) /\ UNCHANGED <<rateVars, probeVars, detectVars, clientVars>>)

InitRateSpec ==
  /\ platforms = DefaultPlatforms
  /\ platform_states = NoStates
  /\ store = [k \in CredentialKeys |-> NoItem]
  /\ loadPc = "done"
  /\ loadStates = NoStates
  /\ loadBuf = NoItem
  /\ cfg = IdleCfg
  /\ callResult = NoCall
  /\ nOps = 0
  /\ NoFetch
  /\ InitRate
  /\ InitProbe
  /\ InitClient
  /\ InitDetect

NextRate ==
  \/ \E c \in Callers, p \in Platforms : Acquire(c, p) /\ UNCHANGED <<regVars, fetchVars, probeVars, detectVars, clientVars>>
  \/ \E c \in Callers : Wake(c) /\ UNCHANGED <<regVars, fetchVars, probeVars, detectVars, clientVars>>
  \/ Tick /\ UNCHANGED <<regVars, fetchVars, probeVars, detectVars, clientVars>>

SpecRate == InitRateSpec /\ [][NextRate]_vars

\* requests of two callers through the adapters
restVars == <<regVars, fetchVars, probeVars, detectVars, credVars, screenVars, settingsVars>>

NextRequests ==
  \/ \E c \in Callers, p \in Platforms, hasToken \in BOOLEAN :
       /\ Len(grantLog) + Cardinality({d \in Callers : caller[d].pc = "sleeping"}) < MaxRequests
       /\ makeRequest(c, p, hasToken)
       /\ UNCHANGED restVars
  \/ \E c \in Callers : Wake(c) /\ UNCHANGED <<restVars, reqVars>>
  \/ \E c \in Callers : FetchIssue(c) /\ UNCHANGED restVars
  \/ \E c \in Callers, ok \in BOOLEAN : Respond(c, ok) /\ UNCHANGED restVars
  \/ Tick /\ UNCHANGED <<restVars, reqVars>>

SpecRequests == InitRateSpec /\ [][NextRequests]_vars

\* setCredentials calls on adapters constructed over the items an earlier
\* session stored, their loadCredentials still in flight
regNoStore == <<platforms, platform_states, loadPc, loadStates, loadBuf, cfg, callResult, nOps>>
notCredVars == <<regNoStore, fetchVars, rateVars, probeVars, detectVars, reqVars, screenVars, settingsVars>>

InitCredentialsSpec ==
  /\ platforms = DefaultPlatforms
  /\ platform_states = NoStates
  /\ store \in [CredentialKeys -> {NoItem, "tok"}]
  /\ store[CredentialKey("reddit")] = NoItem
  /\ loadPc = "done"
  /\ loadStates = NoStates
  /\ loadBuf = NoItem
  /\ cfg = IdleCfg
  /\ callResult = NoCall
  /\ nOps = 0
  /\ NoFetch
  /\ InitRate
  /\ InitProbe
  /\ InitClient
  /\ InitDetect

NextCredentials ==
  \/ \E p \in CredPlatforms, t \in NewTokens : setCredentials(p, t) /\ UNCHANGED notCredVars
  \/ SetCredentialsResolves /\ UNCHANGED notCredVars
  \/ \E a \in CredAdapters : LoadCredentialsDone(a) /\ UNCHANGED notCredVars
  \/ LoadSecondRead /\ UNCHANGED notCredVars
  \/ LoadSocialDone /\ UNCHANGED notCredVars

SpecCredentials == InitCredentialsSpec /\ [][NextCredentials]_vars

\* a caller's session after loadPlatformStates has finished: an earlier
\* session left its enabled flags in AsyncStorage, and the credentials of
\* all platforms or of none
InitSession ==
  /\ \E enabledBefore \in SUBSET Platforms, tok \in {NoItem, "tok"} :
       /\ Cardinality(enabledBefore) <= MaxProbed
       /\ store = [k \in CredentialKeys |-> tok]
       /\ platforms =
            CheckedPlatforms(
              MergeStates(DefaultPlatforms,
                          [present |-> TRUE,
                           states |-> [p \in Platforms |->
                                         [enabled |-> p \in enabledBefore, configured |-> FALSE]]]),
              store)
  /\ platform_states = StatesSnapshot(platforms)
  /\ loadPc = "done"
  /\ loadStates = NoStates
  /\ loadBuf = NoItem
  /\ cfg = IdleCfg
  /\ callResult = NoCall
  /\ nOps = 0
  /\ NoFetch
  /\ InitRate
  /\ InitProbe
  /\ InitClient
  /\ InitDetect

NextSession ==
  \/ FeedCall /\ UNCHANGED <<rateVars, detectVars, clientVars>>
  \/ \E p \in Platforms, resp \in Responses :
       callKind = "feed" /\ TaskComplete(p, resp) /\ UNCHANGED <<rateVars, probeVars, detectVars, clientVars>>
  \/ callKind = "feed" /\ FetchReturn /\ UNCHANGED <<rateVars, probeVars, detectVars, clientVars>>
  \/ searchAllPlatforms /\ UNCHANGED <<rateVars, detectVars, clientVars>>
  \/ \E p \in Platforms, resp \in Responses : SearchTaskComplete(p, resp) /\ UNCHANGED <<rateVars, detectVars, clientVars>>
  \/ SearchReturn /\ UNCHANGED <<rateVars, detectVars, clientVars>>
  \/ \E p \in Platforms, requestOk \in BOOLEAN :
       testPlatformConnection(p, requestOk) /\ UNCHANGED <<rateVars, detectVars, clientVars>>
  \/ NextCall /\ UNCHANGED <<rateVars, detectVars, clientVars>>

SpecSession == InitSession /\ [][NextSession]_vars

\* the registry, the fetches and the limiters are at rest
InitOthers ==
  /\ platforms = DefaultPlatforms
  /\ platform_states = NoStates
  /\ store = [k \in CredentialKeys |-> NoItem]
  /\ loadPc = "done"
  /\ loadStates = NoStates
  /\ loadBuf = NoItem
  /\ cfg = IdleCfg
  /\ callResult = NoCall
  /\ nOps = 0
  /\ NoFetch
  /\ InitRate
  /\ InitProbe
  /\ InitClient

otherVars == <<regVars, fetchVars, rateVars, probeVars, clientVars>>

\* the inputs of the analysis sessions, and of the overlapping scans
AnalysisWatchlists == Watchlists(MaxTermPieces, MaxTerms)
AnalysisTexts == TextInputs(MaxTextPieces)
ShortTerms == Terms(MaxShortPieces)
ScanWatchlists == Watchlists(MaxShortPieces, MaxTerms)
ScanTexts == TextInputs(MaxScanPieces)

\* one user's addToWatchlist / removeFromWatchlist / clear calls, one after
\* another, on a watchlist that starts empty
SoleUser == 1

InitWatchlist == InitOthers /\ InitDetect

NextWatchlist ==
  \/ \E op \in {"add", "remove"}, term \in ShortTerms :
       WatchlistCall(SoleUser, op, term) /\ UNCHANGED otherVars
  \/ AddDecide(SoleUser) /\ UNCHANGED otherVars
  \/ RemoveSave(SoleUser) /\ UNCHANGED otherVars
  \/ clearWatchlist(SoleUser) /\ UNCHANGED otherVars

SpecWatchlist == InitWatchlist /\ [][NextWatchlist]_vars

\* two users' addToWatchlist calls, one each, that may overlap
NextAdds ==
  \/ \E u \in Users, term \in ShortTerms :
       /\ wlOps[u].pc = "idle"
       /\ WatchlistCall(u, "add", term)
       /\ UNCHANGED otherVars
  \/ \E u \in Users : AddDecide(u) /\ UNCHANGED otherVars

SpecAdds == InitWatchlist /\ [][NextAdds]_vars

\* the user on the protected Reddit feed and in the protected web view
notScreenVars == <<regVars, fetchVars, rateVars, probeVars, detectVars, reqVars, credVars, settingsVars>>

InitScreensSpec == InitOthers /\ InitDetect

NextScreens ==
  \/ \E analyses \in [PostIds -> PostAnalyses] : loadInitialPosts(analyses) /\ UNCHANGED notScreenVars
  \/ \E id \in PostIds : revealPost(id) /\ UNCHANGED notScreenVars
  \/ \E id \in PostIds : hidePost(id) /\ UNCHANGED notScreenVars
  \/ \E url \in Urls : handleLoadStart(url) /\ UNCHANGED notScreenVars
  \/ \E long \in BOOLEAN : handleMessage(long) /\ UNCHANGED notScreenVars
  \/ \E result \in WebResults : MessageAnalyzed(result) /\ UNCHANGED notScreenVars
  \/ handleRevealContent /\ UNCHANGED notScreenVars
  \/ handleKeepHidden /\ UNCHANGED notScreenVars

SpecScreens == InitScreensSpec /\ [][NextScreens]_vars

\* the settings screen while a scan is recorded: the mount effect's
\* loadStats, one SpoilerDetector.analyzeText call (as from the web view),
\* and presses of Reset and Clear All
notSettingsVars == <<regVars, fetchVars, rateVars, probeVars, reqVars, credVars, screenVars>>

NextSettings ==
  \/ \E text \in ScanTexts :
       analyzeText(1, "SpoilerDetector", text, NoContext) /\ UNCHANGED otherVars
  \/ AnalyzeMatch(1) /\ UNCHANGED otherVars
  \/ StatsWrite(1) /\ UNCHANGED otherVars
  \/ loadStats /\ UNCHANGED notSettingsVars
  \/ StatsLoaded /\ UNCHANGED notSettingsVars
  \/ \E h \in Presses : resetStats(h) /\ UNCHANGED notSettingsVars
  \/ \E h \in Presses : clearAllData(h) /\ UNCHANGED notSettingsVars
  \/ \E h \in Presses : ClearUpdate(h) /\ UNCHANGED notSettingsVars
  \/ \E h \in Presses : ResetWrite(h) /\ UNCHANGED notSettingsVars
  \/ \E h \in Presses : ResetReload(h) /\ UNCHANGED notSettingsVars
  \/ \E h \in Presses : ResetDone(h) /\ UNCHANGED notSettingsVars

InitSettingsSpec ==
  /\ InitOthers
  /\ watchlist \in ScanWatchlists
  /\ InitEngine

SpecSettings == InitSettingsSpec /\ [][NextSettings]_vars

\* analyzeText on a stored watchlist: a call, then the same call once more,
\* updateConfig possibly in between
InitAnalysis ==
  /\ InitOthers
  /\ watchlist \in AnalysisWatchlists
  /\ InitEngine

NextAnalysis ==
  \/ \E engine \in Engines, text \in AnalysisTexts, context \in Contexts :
       /\ engine = "SpoilerDetector" => context = NoContext
       /\ analyzeText(1, engine, text, context)
       /\ UNCHANGED otherVars
  \/ \E c \in Analyses : AnalyzeMatch(c) /\ UNCHANGED otherVars
  \/ \E c \in Analyses : StatsWrite(c) /\ UNCHANGED otherVars
  \/ \E newConfig \in ConfigUpdates :
       /\ calls[1].pc = "done"
       /\ calls[2].pc = "idle"
       /\ config = DefaultConfig
       /\ updateConfig(newConfig)
       /\ UNCHANGED otherVars
  \/ /\ calls[1].pc = "done"
     /\ analyzeText(2, calls[1].engine, calls[1].text, calls[1].context)
     /\ UNCHANGED otherVars

SpecAnalysis == InitAnalysis /\ [][NextAnalysis]_vars

\* analyzeText calls that overlap in time
InitScans ==
  /\ InitOthers
  /\ watchlist \in ScanWatchlists
  /\ InitEngine

NextScans ==
  \/ \E c \in Analyses, engine \in Engines, text \in ScanTexts :
       analyzeText(c, engine, text, NoContext) /\ UNCHANGED otherVars
  \/ \E c \in Analyses : AnalyzeMatch(c) /\ UNCHANGED otherVars
  \/ \E c \in Analyses : StatsWrite(c) /\ UNCHANGED otherVars

SpecScans == InitScans /\ [][NextScans]_vars

\* the words the terms and the texts of the tier checks are made of
TermWords ==
  <<<<"g", "o", "t">>, <<"r", "e", "d">>, <<"s", "u", "n", "s">>, <<"w", "a", "r">>,
    <<"f", "1">>, <<"t", "v">>>>
TextWords ==
  <<<<"g", "o", "t">>, <<"r", "e", "d">>, <<"s", "u", "n">>, <<"w", "a", "r">>,
    <<"d", "i", "e", "s">>>>

\* the words at the places chosen, in their order, with one space between
RECURSIVE Join(_, _, _)
Join(words, chosen, i) ==
  IF i > Len(words) THEN <<>>
  ELSE LET rest == Join(words, chosen, i + 1)
       IN IF i \notin chosen THEN rest
          ELSE IF rest = <<>> THEN words[i]
          ELSE words[i] \o <<" ">> \o rest

TierTerms == {Join(TermWords, chosen, 1) : chosen \in (SUBSET (1..Len(TermWords))) \ {{}}}
TierWatchlists == UNION {[1..m -> TierTerms] : m \in 0..MaxTierTerms}
TierTexts ==
  {[isString |-> TRUE, chars |-> Join(TextWords, chosen, 1)] : chosen \in SUBSET (1..Len(TextWords))}

\* one MLEngine.analyzeText call on a stored watchlist of worded terms
InitTiers ==
  /\ InitOthers
  /\ watchlist \in TierWatchlists
  /\ InitEngine

NextTiers ==
  \/ \E text \in TierTexts : analyzeText(1, "MLEngine", text, NoContext) /\ UNCHANGED otherVars
  \/ AnalyzeMatch(1) /\ UNCHANGED otherVars
  \/ StatsWrite(1) /\ UNCHANGED otherVars

SpecTiers == InitTiers /\ [][NextTiers]_vars

\* ------------------------------------------------------------------ claims

\* C1: setPlatformEnabled(id, true) on a source that is not configured fails
\* with InvalidState and leaves that source's enabled flag unchanged, in
\* memory and in the persisted platform_states.
C1_EnableUnconfiguredRejected ==
  [][\A p \in Platforms :
       (setPlatformEnabled(p, TRUE) /\ ~platforms[p].configured) =>
         /\ callResult'.status = "InvalidState"
         /\ platforms'[p].enabled = platforms[p].enabled
         /\ platform_states'.states[p].enabled = platform_states.states[p].enabled]_vars

\* C2: in every reachable state of the registry every source with
\* enabled = true also has configured = true.
C2_EnabledImpliesConfigured ==
  \A p \in Platforms : platforms[p].enabled => platforms[p].configured

\* a configurePlatform call settles in this step (it resolves or rejects)
ConfigureSettles ==
  /\ ConfigureDone \/ \E p \in Platforms, credentials \in Tokens : configurePlatform(p, credentials)
  /\ cfg'.pc = "idle"

\* C9: for every source id, configurePlatform(id, credentials) completes with
\* that source's configured flag true and its credentials in the credential
\* store, so that a later checkPlatformConfigurations reports it configured.
C9_ConfigureMarksAndStores ==
  [][ConfigureSettles =>
       LET p == callResult'.platform
       IN /\ callResult'.status = "ok"
          /\ platforms'[p].configured
          /\ CheckedPlatforms(platforms', store')[p].configured]_vars

\* a step of a configurePlatform call
ConfigureStep ==
  \/ \E p \in Platforms, credentials \in Tokens : configurePlatform(p, credentials)
  \/ ConfigureMark
  \/ ConfigureDone

\* C10: configurePlatform does not auto-enable: no step of it changes the
\* enabled flag of any source, the configured one included.
C10_ConfigureKeepsEnabled ==
  [][ConfigureStep => \A q \in Platforms : platforms'[q].enabled = platforms[q].enabled]_vars

\* C10 witness: a configurePlatform call has completed on a disabled source,
\* which is now configured and still disabled.
C10_Witness ==
  /\ callResult = [op |-> "configurePlatform", platform |-> "twitter", status |-> "ok"]
  /\ platforms["twitter"].configured
  /\ ~platforms["twitter"].enabled

\* fetchAllContent has returned its results to getUnifiedFeed
FetchSettled == fetchPc \in {"returned", "threw"}

\* C3: the status map of a fetchAllContent call has exactly one entry per
\* source that was enabled and configured at call time; an entry has
\* success = false exactly when that source's fetch failed; the merged feed
\* holds only items of sources whose entry has success = true.
C3_StatusReflectsFailures ==
  FetchSettled =>
    /\ {p \in Platforms : results[p].present} = enabledPlatforms
    /\ \A p \in enabledPlatforms : results[p].success = ~netFailed[p]
    /\ \A i \in 1..Len(feed) : results[feed[i].platform].success

C8_ReturnsAtDeadline ==
  (fetchPc = "waiting" /\ deadlineExpired) ~>
    (/\ FetchSettled
     /\ \A p \in enabledPlatforms :
          task[p] # "done" => results[p].present /\ ~results[p].success /\ results[p].count = 0)

\* C5: concurrent callers of one source's acquire are serialized: any two
\* grants for that source are at least rateLimitDelay apart.
C5_GrantsOfSourceSpaced ==
  \A i, j \in 1..Len(grantLog) :
    (i < j /\ grantLog[i].platform = grantLog[j].platform) =>
      grantLog[j].time - grantLog[i].time >= rateLimitDelay(AdapterOf(grantLog[j].platform))

\* source p has no grant within its interval and no caller waiting for it
SourceQuiet(p) ==
  /\ \A i \in 1..Len(grantLog) :
       grantLog[i].platform = p => clock - grantLog[i].time >= rateLimitDelay(AdapterOf(p))
  /\ \A d \in Callers : caller[d].platform # p

\* C6: every source has its own rate-limit clock: an acquire for a source
\* that is quiet is granted at once, whatever was granted to or is awaited
\* by other sources (facebook versus instagram included).
C6_OtherSourcesDoNotDelay ==
  [][\A c \in Callers, p \in Platforms :
       (Acquire(c, p) /\ SourceQuiet(p)) => caller'[c].pc = "idle"]_vars

C11_TestReflectsRequest ==
  probe.platform # "none" =>
    /\ ~probe.threw
    /\ probe.connected = probe.requestOk

\* a step of a fetchAllContent, searchAllPlatforms or testPlatformConnection
\* call
CallStep ==
  \/ FeedCall
  \/ \E p \in Platforms, resp \in Responses : TaskComplete(p, resp) \/ SearchTaskComplete(p, resp)
  \/ FetchReturn
  \/ searchAllPlatforms
  \/ SearchReturn
  \/ \E p \in Platforms, requestOk \in BOOLEAN : testPlatformConnection(p, requestOk)

\* the adapter call a settled task made for p came back with the source's
\* answer
SourceSucceeded(p) ==
  /\ task[p] = "done"
  /\ ~netFailed[p]
  /\ callKind = "search" => IssuesSearch(p)

\* C12: fetch failures are not sticky: no step of a fetchAllContent,
\* searchAllPlatforms or testPlatformConnection call changes a platform's
\* enabled or configured flag, in memory or in the saved states, and a call
\* in which a source succeeds reports success = true for it also when that
\* source failed in an earlier call.
C12_FailuresNotSticky ==
  [][CallStep =>
       /\ platforms' = platforms
       /\ platform_states' = platform_states
       /\ \A p \in everFailed' : SourceSucceeded(p)' => results'[p].success]_vars

\* C12 witness: a source that failed in an earlier call has succeeded in the
\* call that has now returned, and is reported with success = true.
C12_Witness ==
  /\ fetchPc = "returned"
  /\ \E p \in everFailed : SourceSucceeded(p) /\ results[p].success /\ platforms[p].enabled

\* the properties of a DetectionResult (MLEngine.createResult), and the
\* property ProtectedRedditFeed stores one under
DetectionKeys == {"hasSpoiler", "confidence", "matchedTerms", "detailedMatches"}
AnnotationKey == "spoilerAnalysis"

\* C13: every item of the feed the unified-feed operation returns carries the
\* id of the source it came from and a DetectionResult.
C13_ItemsAnnotated ==
  fetchPc = "returned" =>
    \A i \in 1..Len(feed) :
      /\ feed[i].platform \in enabledPlatforms
      /\ \E k \in 1..Len(results[feed[i].platform].content) :
           results[feed[i].platform].content[k].id = feed[i].id
      /\ DetectionKeys \subseteq DOMAIN feed[i] \/ AnnotationKey \in DOMAIN feed[i]

\* the time an item was created at its source, whichever property holds it
CreationTime(item) ==
  IF item.created # 0 THEN item.created
  ELSE IF item.published # 0 THEN item.published ELSE item.timestamp

\* C14: the merged feed is ordered by creation time descending: of every two
\* adjacent items the first was created no earlier than the second.
C14_FeedNewestFirst ==
  fetchPc = "returned" =>
    \A i \in 1..(Len(feed) - 1) : CreationTime(feed[i]) >= CreationTime(feed[i + 1])

\* the keys of res in the registry's order of platforms
RECURSIVE InPriorityOrder(_, _)
InPriorityOrder(order, res) ==
  IF order = <<>> THEN <<>>
  ELSE (IF res[Head(order)].present THEN <<Head(order)>> ELSE <<>>)
         \o InPriorityOrder(Tail(order), res)

\* C15: the merged feed does not depend on the order in which the fetch
\* tasks complete: it is the merge of the per-source lists taken in a fixed
\* source priority, items of equal time keeping that priority and, within a
\* source, the source's own order.
C15_OrderIgnoresCompletion ==
  fetchPc = "returned" =>
    feed = SortByDate(Combine(InPriorityOrder(PlatformOrder, results), results))

\* no two terms of a list are equal ignoring case
NoCaseDuplicates(list) ==
  \A i, j \in 1..Len(list) : i # j => toLowerCase(list[i]) # toLowerCase(list[j])

C17_NothingToMatch ==
  \A c \in Analyses :
    (/\ calls[c].returned
     /\ \/ ~calls[c].text.isString
        \/ calls[c].text.chars = <<>>
        \/ calls[c].watchlist = <<>>) =>
      /\ ~calls[c].result.hasSpoiler
      /\ calls[c].result.confidence = 0
      /\ calls[c].result.matchedTerms = <<>>
      /\ calls[c].result.evaluated = 0

\* C17 witness: MLEngine.analyzeText has returned for a text that is not
\* empty on an empty watchlist.
C17_Witness ==
  /\ calls[1].returned
  /\ calls[1].engine = "MLEngine"
  /\ calls[1].text = [isString |-> TRUE, chars |-> <<"g", "o", "t">>]
  /\ watchlist = <<>>
  /\ calls[1].result = NoResult

\* C18: for every term and text, terms with punctuation or repeated spaces
\* included: if the term occurs in the text when both are lower-cased,
\* stripped of punctuation and whitespace-collapsed, MLEngine.analyzeText
\* records the term as an exact match of confidence 0.95; with that single
\* match and no context flags the result is hasSpoiler = true, confidence =
\* 0.95, matchedTerms = [term].
C18_ExactAfterNormalising ==
  \A c \in Analyses :
    (/\ calls[c].returned
     /\ calls[c].engine = "MLEngine"
     /\ calls[c].context = NoContext
     /\ calls[c].text.isString
     /\ Len(calls[c].watchlist) = 1
     /\ config = DefaultConfig
     /\ preprocessText(calls[c].watchlist[1]) # <<>>
     /\ includes(preprocessText(calls[c].text.chars), preprocessText(calls[c].watchlist[1]))) =>
      /\ calls[c].result.detailedMatches =
           <<[term |-> calls[c].watchlist[1], matchType |-> "exact", confidence |-> Conf(95)]>>
      /\ calls[c].result.hasSpoiler
      /\ calls[c].result.confidence = Conf(95)
      /\ calls[c].result.matchedTerms = <<calls[c].watchlist[1]>>

\* C19: MLEngine.analyzeText called twice with the same text and context and
\* no watchlist change in between returns the same hasSpoiler, confidence,
\* matchedTerms and detailedMatches, whatever happened between the calls,
\* updateConfig included.
C19_SameInputsSameResult ==
  (/\ calls[1].pc = "done"
   /\ calls[2].pc = "done"
   /\ calls[1].engine = "MLEngine") =>
    /\ calls[2].result.hasSpoiler = calls[1].result.hasSpoiler
    /\ calls[2].result.confidence = calls[1].result.confidence
    /\ calls[2].result.matchedTerms = calls[1].result.matchedTerms
    /\ calls[2].result.detailedMatches = calls[1].result.detailedMatches

\* no analyzeText call and no statistics update is under way
ScansSettled == \A c \in Analyses : calls[c].pc \in {"idle", "done"}

\* C20: exactly one scan is recorded per analyze call: once N analyzeText
\* calls (of either engine) have completed, overlapping or not, the stored
\* postsScanned has grown by N and spoilersBlocked by the number of calls
\* that returned hasSpoiler = true.
C20_OneScanPerCall ==
  ScansSettled =>
    /\ stats.postsScanned = nCompleted
    /\ stats.spoilersBlocked = nSpoilers

\* the tiers of the detection algorithm, for a cleaned text and a lowered term
LongWordsOf(term) == LongWords(split(term))
FoundCount(text, term) == Len(FoundWords(LongWordsOf(term), text))
MultiWord(term) == includes(term, <<" ">>)
ExactTier(text, term) == includes(text, term)
FuzzyTier(text, term) == ~MultiWord(term) /\ findFuzzyMatches(text, term)
CompleteTier(text, term) == MultiWord(term) /\ FoundCount(text, term) = Len(LongWordsOf(term))
PartialTier(text, term) ==
  /\ MultiWord(term)
  /\ 10 * FoundCount(text, term) >= 7 * Len(LongWordsOf(term))
  /\ FoundCount(text, term) < Len(LongWordsOf(term))
ContextualTier(text, term) == analyzeContextualMatch(text, term)

\* the type of the first tier that succeeds, "none" when none does
FirstTier(text, term) ==
  IF ExactTier(text, term) THEN "exact"
  ELSE IF FuzzyTier(text, term) THEN "fuzzy"
  ELSE IF CompleteTier(text, term) THEN "multi_word_complete"
  ELSE IF PartialTier(text, term) THEN "multi_word_partial"
  ELSE IF ContextualTier(text, term) THEN "contextual"
  ELSE "none"

\* per watchlist term, in watchlist order: the term and its first tier, and
\* nothing for a term without one
RECURSIVE FirstTiers(_, _)
FirstTiers(text, list) ==
  IF list = <<>> THEN <<>>
  ELSE LET tier == FirstTier(text, trim(toLowerCase(Head(list))))
       IN (IF tier = "none" THEN <<>> ELSE <<[term |-> Head(list), matchType |-> tier]>>)
            \o FirstTiers(text, Tail(list))

\* an MLEngine.analyzeText call that went through the tiers has returned
Matched(c) ==
  /\ calls[c].returned
  /\ calls[c].engine = "MLEngine"
  /\ calls[c].text.isString
  /\ calls[c].text.chars # <<>>
  /\ calls[c].watchlist # <<>>

\* C21: for each watchlist term analyzeText records at most one Match, whose
\* type is that of the first tier that succeeds in the order exact, fuzzy,
\* multi-word complete, multi-word partial, contextual; a term for which no
\* tier succeeds adds nothing to matchedTerms or detailedMatches.
C21_FirstTierWins ==
  \A c \in Analyses :
    Matched(c) =>
      LET expected == FirstTiers(preprocessText(calls[c].text.chars), calls[c].watchlist)
          result == calls[c].result
      IN /\ [i \in 1..Len(result.detailedMatches) |->
               [term |-> result.detailedMatches[i].term,
                matchType |-> result.detailedMatches[i].matchType]] = expected
         /\ result.matchedTerms = [i \in 1..Len(expected) |-> expected[i].term]

\* C21 witness: a call has returned for a two-word term of which the text
\* holds the first word and a spoiler keyword, so that the multi-word tiers
\* fail and the contextual tier is the first to succeed.
C21_Witness ==
  /\ Matched(1)
  /\ calls[1].watchlist = <<<<"g", "o", "t", " ", "r", "e", "d">>>>
  /\ calls[1].text.chars = <<"g", "o", "t", " ", "d", "i", "e", "s">>
  /\ calls[1].result.detailedMatches =
       <<[term |-> <<"g", "o", "t", " ", "r", "e", "d">>, matchType |-> "contextual",
          confidence |-> Conf(50)]>>

\* the matches a returned call recorded for a watchlist term, and how often
\* the term is in the watchlist
MatchesFor(c, term) == SelectSeq(calls[c].result.detailedMatches, LAMBDA m : m.term = term)
Occurrences(list, term) == Cardinality({i \in 1..Len(list) : list[i] = term})

C23_ConfidenceDecides ==
  \A c \in Analyses :
    (calls[c].returned /\ calls[c].engine = "MLEngine") =>
      /\ calls[c].result.confidence >= 0
      /\ calls[c].result.confidence <= Conf(95)
      /\ calls[c].result.hasSpoiler <=> calls[c].result.confidence >= Conf(30)

\* C24: in every adapter, each outbound network request is preceded by a
\* completed rate-limit acquire for that adapter's source: no fetch is issued
\* before the acquire of the same request has returned.
C24_AcquireBeforeFetch ==
  \A c \in Callers :
    request[c].pc = "fetch" =>
      /\ caller[c].pc = "idle"
      /\ Len(GrantsTo(c)) = request[c].grantsBefore + 1
      /\ GrantsTo(c)[Len(GrantsTo(c))].platform = request[c].platform

\* C24 witness: a Twitter request that had to wait for its acquire has
\* issued its fetch, after the grant.
C24_Witness ==
  /\ request[1].pc = "fetch"
  /\ request[1].platform = "twitter"
  /\ GrantsTo(1) # <<>>
  /\ GrantsTo(1)[Len(GrantsTo(1))].platform = "twitter"
  /\ GrantsTo(1)[Len(GrantsTo(1))].waited

\* C25: a setPlatformEnabled(id, v) call made while the constructor-started
\* loadPlatformStates is still pending is not lost: once both have finished,
\* the source's enabled flag equals v both in memory and in the persisted
\* platform_states. The call leaves the flag at v in both places, so the
\* claim is that no step of the loader changes it afterwards in either, for
\* as long as no further registry call is made.
C25_SetDuringLoadKept ==
  [][(callResult.op = "setPlatformEnabled" /\ nOps' = nOps) =>
       LET p == callResult.platform
       IN /\ platforms'[p].enabled = platforms[p].enabled
          /\ platform_states'.states[p].enabled = platform_states.states[p].enabled]_vars

\* C26: after setCredentials(token) has resolved on an adapter (Twitter,
\* YouTube, Facebook, Instagram), the in-memory credential used for requests
\* equals the token last written to storage, also when the loadCredentials
\* started by the constructor is still in flight during the call.
C26_MemoryMatchesStorage ==
  credCall.pc = "resolved" =>
    /\ token[credCall.platform] = credCall.token
    /\ token[credCall.platform] = store[CredentialKey(credCall.platform)]

\* the stored entries equal to a term ignoring case
EntriesOf(term) == {i \in 1..Len(watchlist) : toLowerCase(watchlist[i]) = toLowerCase(term)}

\* C27: when two addToWatchlist calls run concurrently, no update is lost
\* and no duplicate is created: for two different terms both are in the
\* stored watchlist after both calls complete, and for the same term exactly
\* one entry is stored and exactly one call returns true.
C27_ConcurrentAddsKept ==
  (\A u \in Users : wlOps[u].pc = "done" /\ wlOps[u].op = "add") =>
    IF toLowerCase(wlOps[1].term) = toLowerCase(wlOps[2].term)
    THEN /\ Cardinality(EntriesOf(wlOps[1].term)) = 1
         /\ wlOps[1].ret # wlOps[2].ret
    ELSE /\ EntriesOf(wlOps[1].term) # {}
         /\ EntriesOf(wlOps[2].term) # {}

\* C28: for a post marked isProtected in the Reddit feed, and for a page
\* flagged in the protected web view, the underlying content becomes visible
\* only after the user chose Reveal / Show Content; choosing Keep Hidden
\* never makes the content visible.
C28_VisibleOnlyAfterReveal ==
  /\ \A id \in PostIds :
       (posts[id].isProtected /\ ~shouldShowSpoilerOverlay(id)) => spoilerStates[id].revealed
  /\ (webPage.flagged /\ ~showSpoilerOverlay) => webPage.choice = "reveal"

\* C29: analyzeText reports a multi-word watchlist term as matched only if
\* the text contains at least one word of that term: a term whose words are
\* all 2 characters or shorter and that is not a substring of the text is
\* never reported as a (multi-word complete) match.
C29_MatchNeedsAWord ==
  \A c \in Analyses :
    Matched(c) =>
      \A i \in 1..Len(calls[c].watchlist) :
        LET term == calls[c].watchlist[i]
            lowered == trim(toLowerCase(term))
            text == preprocessText(calls[c].text.chars)
            words == split(lowered)
        IN (MultiWord(lowered) /\ MatchesFor(c, term) # <<>>) =>
             \E j \in 1..Len(words) : words[j] # <<>> /\ includes(text, words[j])

\* C30: the Reset Statistics and Clear All Data actions leave the stored
\* spoilersBlocked and postsScanned at exactly zero, whatever scans were
\* recorded since the settings screen last loaded its stats and however often
\* the action is triggered; in every reachable state both counters are >= 0.
C30_ResetLeavesZero ==
  [][/\ \A h \in Presses : ResetWrite(h) => stats' = ZeroStats
     /\ stats'.spoilersBlocked >= 0
     /\ stats'.postsScanned >= 0]_vars

====
